---------------------------- MODULE Spec2Model ----------------------------
(***************************************************************************)
(* CSV validation and typing engine of src/services/csvValidation.ts:      *)
(* CSVValidator (detectColumnTypes, validateValue, validateRow,            *)
(* getValidationSummary) and validateCSV.                                  *)
(*                                                                         *)
(* Text is a sequence of chunks.  Text that comes from a file is held one  *)
(* character per chunk, so that split, trim, replace, toLowerCase,         *)
(* includes, the e-mail pattern and parseFloat work on characters as the   *)
(* code does.  A literal of the code ("Missing value", ": ") is one chunk. *)
(***************************************************************************)
EXTENDS Integers, Naturals, Sequences, FiniteSets, TLC

(***************************************************************************)
(* Bounds of the model.                                                    *)
(***************************************************************************)
\* number of validateCSV calls, each with a slot of its own: in flight together in
\* SpecInterleaved, made during a session in SpecUpload and SpecRecords
NumSlots == 2
\* longest body (lines after the header line) of a generated file
MaxLines == 3
\* most files in one drop on the upload area
MaxFiles == 2
\* requests of the records table in a session
MaxRequests == 1
\* drops on the upload area in a session
MaxDrops == 1
\* largest page size asked of getUploadData; pages run up to MaxLimit + 1
MaxLimit == 2

Slots == 1..NumSlots

(***************************************************************************)
(* String primitives of the JavaScript runtime.                            *)
(***************************************************************************)
\* WhiteSpace and LineTerminator characters, as String.prototype.trim and \s see them
IsWhitespace(c) == c \in {" ", "\t", "\r", "\n"}

IsDigit(c) == c \in {"0", "1", "2", "3", "4", "5", "6", "7", "8", "9"}

DigitValue(c) ==
  CASE c = "0" -> 0 [] c = "1" -> 1 [] c = "2" -> 2 [] c = "3" -> 3 [] c = "4" -> 4
    [] c = "5" -> 5 [] c = "6" -> 6 [] c = "7" -> 7 [] c = "8" -> 8 [] c = "9" -> 9

UpperChars == <<"A","B","C","D","E","F","G","H","I","J","K","L","M",
                "N","O","P","Q","R","S","T","U","V","W","X","Y","Z">>
LowerChars == <<"a","b","c","d","e","f","g","h","i","j","k","l","m",
                "n","o","p","q","r","s","t","u","v","w","x","y","z">>

\* String.prototype.toLowerCase
toLowerCase(s) ==
  [k \in 1..Len(s) |->
     IF \E j \in 1..26 : UpperChars[j] = s[k]
       THEN LowerChars[CHOOSE j \in 1..26 : UpperChars[j] = s[k]]
       ELSE s[k]]

\* String.prototype.includes
includes(s, sub) ==
  \E p \in 1..(Len(s) - Len(sub) + 1) : SubSeq(s, p, p + Len(sub) - 1) = sub

\* String.prototype.trim
RECURSIVE trimStart(_)
trimStart(s) ==
  IF s # <<>> /\ IsWhitespace(Head(s)) THEN trimStart(Tail(s)) ELSE s

RECURSIVE trimEnd(_)
trimEnd(s) ==
  IF s # <<>> /\ IsWhitespace(s[Len(s)]) THEN trimEnd(SubSeq(s, 1, Len(s) - 1)) ELSE s

trim(s) == trimEnd(trimStart(s))

\* String.prototype.split with a one-character separator: "" splits to [""]
RECURSIVE split(_, _)
split(s, sep) ==
  IF \E p \in 1..Len(s) : s[p] = sep
    THEN LET p == CHOOSE q \in 1..Len(s) : s[q] = sep /\ \A r \in 1..(q - 1) : s[r] # sep
         IN  <<SubSeq(s, 1, p - 1)>> \o split(SubSeq(s, p + 1, Len(s)), sep)
    ELSE <<s>>

\* s.replace(/"/g, ''): every double quote of the string is removed
IsNotQuote(c) == c # "\""
stripQuotes(s) == SelectSeq(s, IsNotQuote)

\* Array.prototype.join
RECURSIVE join(_, _)
join(parts, sep) ==
  IF parts = <<>> THEN <<>>
  ELSE IF Len(parts) = 1 THEN parts[1]
  ELSE parts[1] \o sep \o join(Tail(parts), sep)

(***************************************************************************)
(* Plain objects (Record<string, any>): own keys are listed with the       *)
(* array-index keys first, in ascending numeric order, then the other keys *)
(* in insertion order; assigning to an existing key keeps its place.       *)
(***************************************************************************)
RECURSIVE DigitsToNat(_)
DigitsToNat(ds) ==
  IF ds = <<>> THEN 0 ELSE 10 * DigitsToNat(SubSeq(ds, 1, Len(ds) - 1)) + DigitValue(ds[Len(ds)])

\* canonical numeric string of an array index (keys of at most 9 digits)
IsArrayIndex(k) ==
  /\ Len(k) \in 1..9
  /\ \A p \in 1..Len(k) : IsDigit(k[p])
  /\ (Len(k) > 1 => k[1] # "0")

HasKey(obj, k) == \E p \in 1..Len(obj) : obj[p].key = k

GetProp(obj, k) == obj[CHOOSE p \in 1..Len(obj) : obj[p].key = k].value

\* place of a new key k among the own keys of obj
InsertPos(obj, k) ==
  IF IsArrayIndex(k)
    THEN Cardinality({p \in 1..Len(obj) :
            IsArrayIndex(obj[p].key) /\ DigitsToNat(obj[p].key) < DigitsToNat(k)}) + 1
    ELSE Len(obj) + 1

\* obj[k] = v
SetProp(obj, k, v) ==
  IF HasKey(obj, k)
    THEN [p \in 1..Len(obj) |-> IF obj[p].key = k THEN [key |-> k, value |-> v] ELSE obj[p]]
    ELSE LET q == InsertPos(obj, k)
         IN  SubSeq(obj, 1, q - 1) \o <<[key |-> k, value |-> v]>> \o SubSeq(obj, q, Len(obj))

(***************************************************************************)
(* Values held in a cell after validation (ValidationResult.cleanedValue): *)
(* null, a string, a number, a boolean.  A number is a decimal m * 10^e    *)
(* with a sign, kept normalised (m has no trailing zero; zero is 0 * 10^0),*)
(* or an infinity.                                                         *)
(***************************************************************************)
NullValue == [t |-> "null", v |-> <<>>]
StringValue(s) == [t |-> "string", v |-> s]
BooleanValue(b) == [t |-> "boolean", v |-> IF b THEN <<"true">> ELSE <<"false">>]
NumberValue(n) == [t |-> "number", v |-> n]

NaN == [k |-> "nan", neg |-> FALSE, m |-> 0, e |-> 0]
Infinity(neg) == [k |-> "inf", neg |-> neg, m |-> 0, e |-> 0]

RECURSIVE NumDigits(_)
NumDigits(m) == IF m < 10 THEN 1 ELSE 1 + NumDigits(m \div 10)

RECURSIVE Normalise(_, _)
Normalise(m, e) ==
  IF m = 0 THEN [m |-> 0, e |-> 0]
  ELSE IF m % 10 = 0 THEN Normalise(m \div 10, e + 1)
  ELSE [m |-> m, e |-> e]

\* the two leading digits of m
RECURSIVE LeadingTwo(_)
LeadingTwo(m) == IF m < 10 THEN 10 * m ELSE IF m < 100 THEN m ELSE LeadingTwo(m \div 10)

\* binary64 range: the largest finite double is 1.797...e308, the smallest
\* positive one 4.94...e-324; a decimal beyond the first rounds to an
\* infinity, one below the second to zero
MaxDecimalDigits == 309
MinDecimalDigits == -323

\* the double nearest to (-1)^neg * m * 10^e, for m within double precision
ToDouble(neg, m0, e0) ==
  LET n == Normalise(m0, e0)
      mag == NumDigits(n.m) + n.e
  IN  IF n.m = 0 THEN [k |-> "num", neg |-> neg, m |-> 0, e |-> 0]
      ELSE IF mag > MaxDecimalDigits \/ (mag = MaxDecimalDigits /\ LeadingTwo(n.m) >= 18)
        THEN Infinity(neg)
      ELSE IF mag < MinDecimalDigits
        THEN [k |-> "num", neg |-> neg, m |-> 0, e |-> 0]
      ELSE [k |-> "num", neg |-> neg, m |-> n.m, e |-> n.e]

\* number of digits of s from position p on
RECURSIVE DigitRun(_, _)
DigitRun(s, p) ==
  IF p <= Len(s) /\ IsDigit(s[p]) THEN 1 + DigitRun(s, p + 1) ELSE 0

InfinityText == <<"I", "n", "f", "i", "n", "i", "t", "y">>

\* ExponentPart at position p (e or E, an optional sign, digits), or none: 0
ExponentAt(s, p) ==
  IF p <= Len(s) /\ s[p] \in {"e", "E"}
    THEN IF p + 1 <= Len(s) /\ s[p + 1] \in {"+", "-"}
           THEN (IF s[p + 1] = "-" THEN -1 ELSE 1)
                  * DigitsToNat(SubSeq(s, p + 2, p + 1 + DigitRun(s, p + 2)))
           ELSE DigitsToNat(SubSeq(s, p + 1, p + DigitRun(s, p + 1)))
    ELSE 0

\* digits . digits, the integer digits at p0 and the dot at p0 + intLen
FractionLiteral(neg, s, p0, intLen, fracLen) ==
  IF intLen + fracLen = 0 THEN NaN
  ELSE ToDouble(neg,
         DigitsToNat(SubSeq(s, p0, p0 + intLen - 1)
                     \o SubSeq(s, p0 + intLen + 1, p0 + intLen + fracLen)),
         ExponentAt(s, p0 + intLen + 1 + fracLen) - fracLen)

\* digits [. digits] [exponent] or . digits [exponent], from position p0
DecimalLiteral(neg, s, p0, intLen) ==
  IF p0 + intLen <= Len(s) /\ s[p0 + intLen] = "."
    THEN FractionLiteral(neg, s, p0, intLen, DigitRun(s, p0 + intLen + 1))
  ELSE IF intLen = 0 THEN NaN
  ELSE ToDouble(neg, DigitsToNat(SubSeq(s, p0, p0 + intLen - 1)), ExponentAt(s, p0 + intLen))

\* Infinity or a decimal literal, from position p0
UnsignedLiteral(neg, s, p0) ==
  IF Len(s) >= p0 + 7 /\ SubSeq(s, p0, p0 + 7) = InfinityText THEN Infinity(neg)
  ELSE DecimalLiteral(neg, s, p0, DigitRun(s, p0))

SignedLiteral(s) ==
  IF s # <<>> /\ s[1] \in {"+", "-"} THEN UnsignedLiteral(s[1] = "-", s, 2)
  ELSE UnsignedLiteral(FALSE, s, 1)

\* parseFloat: the value of the longest prefix of the string that is a
\* StrDecimalLiteral; NaN when no prefix is one.  Trailing text is ignored.
parseFloat(str) == SignedLiteral(trimStart(str))

isNaN(n) == n.k = "nan"

\* emailRegex.test(s) for /^[^\s@]+@[^\s@]+\.[^\s@]+$/
IsLocalChar(c) == ~IsWhitespace(c) /\ c # "@"
emailRegexTest(s) ==
  \E a \in 2..Len(s) : \E d \in (a + 2)..(Len(s) - 1) :
     /\ s[a] = "@"
     /\ s[d] = "."
     /\ \A p \in 1..Len(s) : p # a => IsLocalChar(s[p])

(***************************************************************************)
(* new Date(s) and Date.prototype.toISOString.  A string in the date-only  *)
(* form YYYY-MM-DD is UTC midnight of that day when its month and day are  *)
(* legal and is an invalid date otherwise (ECMAScript Date.parse).  Other  *)
(* texts go to the engine's own fallback parser; the texts this model      *)
(* feeds to date columns in other forms have no digits and every engine    *)
(* rejects them.                                                           *)
(***************************************************************************)
IsLeapYear(y) == (y % 4 = 0 /\ y % 100 # 0) \/ y % 400 = 0

DaysInMonth(y, mo) ==
  IF mo = 2 THEN (IF IsLeapYear(y) THEN 29 ELSE 28)
  ELSE IF mo \in {4, 6, 9, 11} THEN 30 ELSE 31

IsDateOnlyForm(s) ==
  /\ Len(s) = 10
  /\ s[5] = "-" /\ s[8] = "-"
  /\ \A p \in {1, 2, 3, 4, 6, 7, 9, 10} : IsDigit(s[p])

\* isNaN(new Date(s).getTime())
IsInvalidDate(s) ==
  IF IsDateOnlyForm(s)
    THEN LET y  == DigitsToNat(SubSeq(s, 1, 4))
             mo == DigitsToNat(SubSeq(s, 6, 7))
             d  == DigitsToNat(SubSeq(s, 9, 10))
         IN  ~(mo \in 1..12 /\ d \in 1..DaysInMonth(y, mo))
    ELSE TRUE

\* new Date(s).toISOString() of a valid date-only string
toISOString(s) == s \o <<"T00:00:00.000Z">>

(***************************************************************************)
(* JSON.stringify of a plain object whose values are cell values.          *)
(***************************************************************************)
\* QuoteJSONString: the characters JSON escapes, among those a cell can hold
JSONEscape(c) ==
  CASE c = "\"" -> <<"\\", "\"">>
    [] c = "\\" -> <<"\\", "\\">>
    [] c = "\t" -> <<"\\", "t">>
    [] c = "\r" -> <<"\\", "r">>
    [] c = "\n" -> <<"\\", "n">>
    [] OTHER    -> <<c>>

RECURSIVE JSONQuote(_)
JSONQuote(s) ==
  IF s = <<>> THEN <<>> ELSE JSONEscape(Head(s)) \o JSONQuote(Tail(s))

\* Number::toString of a finite number, written as decimal mantissa and
\* exponent; one text per number, and -0 prints as 0
NumberToString(n) ==
  (IF n.neg /\ n.m # 0 THEN <<"-">> ELSE <<>>) \o <<ToString(n.m), "e", ToString(n.e)>>

\* SerializeJSONProperty: a number that is not finite is written null
JSONValue(x) ==
  CASE x.t = "null"    -> <<"null">>
    [] x.t = "boolean" -> x.v
    [] x.t = "string"  -> <<"\"">> \o JSONQuote(x.v) \o <<"\"">>
    [] x.t = "number"  -> IF x.v.k = "num" THEN NumberToString(x.v) ELSE <<"null">>

JSONMembers(obj) ==
  [p \in 1..Len(obj) |->
     <<"\"">> \o JSONQuote(obj[p].key) \o <<"\"", ":">> \o JSONValue(obj[p].value)]

JSONStringify(obj) == <<"{">> \o join(JSONMembers(obj), <<",">>) \o <<"}">>

(***************************************************************************)
(* class CSVValidator                                                      *)
(***************************************************************************)
ColumnTypeNames == {"string", "number", "date", "boolean", "email"}

\* keywords of detectColumnTypes
KwEmail   == <<"e","m","a","i","l">>
KwDate    == <<"d","a","t","e">>
KwTime    == <<"t","i","m","e">>
KwPrice   == <<"p","r","i","c","e">>
KwAmount  == <<"a","m","o","u","n","t">>
KwCost    == <<"c","o","s","t">>
KwActive  == <<"a","c","t","i","v","e">>
KwEnabled == <<"e","n","a","b","l","e","d">>

detectColumnType_dateFirst(col) ==
  LET lowerCol == toLowerCase(col)
  IN  IF includes(lowerCol, KwDate) \/ includes(lowerCol, KwTime) THEN "date"
      ELSE IF includes(lowerCol, KwEmail) THEN "email"
      ELSE IF includes(lowerCol, KwPrice) \/ includes(lowerCol, KwAmount)
              \/ includes(lowerCol, KwCost) THEN "number"
      ELSE IF includes(lowerCol, KwActive) \/ includes(lowerCol, KwEnabled) THEN "boolean"
      ELSE "string"

\* the type detectColumnTypes gives one column name
detectColumnType(col) ==
  LET lowerCol == toLowerCase(col)
  IN  IF includes(lowerCol, KwEmail) THEN "email"
      ELSE IF includes(lowerCol, KwDate) \/ includes(lowerCol, KwTime) THEN "date"
      ELSE IF includes(lowerCol, KwPrice) \/ includes(lowerCol, KwAmount)
              \/ includes(lowerCol, KwCost) THEN "number"
      ELSE IF includes(lowerCol, KwActive) \/ includes(lowerCol, KwEnabled) THEN "boolean"
      ELSE "string"

\* detectColumnTypes: this.columns.forEach(col => this.columnTypes[col] = ...)
RECURSIVE detectColumnTypesFrom(_, _, _)
detectColumnTypesFrom(columns, k, columnTypes) ==
  IF k > Len(columns) THEN columnTypes
  ELSE detectColumnTypesFrom(columns, k + 1,
         SetProp(columnTypes, columns[k], detectColumnType(columns[k])))

detectColumnTypes(columns) == detectColumnTypesFrom(columns, 1, <<>>)

TrueWords_noOn == {<<"t","r","u","e">>, <<"1">>, <<"y","e","s">>}
TrueWords  == {<<"t","r","u","e">>, <<"1">>, <<"y","e","s">>, <<"o","n">>}
FalseWords == {<<"f","a","l","s","e">>, <<"0">>, <<"n","o">>, <<"o","f","f">>}

MaxStringLength == 1000

\* if (!cleanedValue): the trimmed text is the empty string
isMissing_never(cleanedValue) == FALSE
isMissing(cleanedValue) == cleanedValue = <<>>

validateValue_nullWhenInvalid(value, expectedType) ==
  LET cleanedValue == trim(value)
      Invalid(msg) == [isValid |-> FALSE, errors |-> <<msg>>,
                       cleanedValue |-> NullValue, type |-> expectedType]
      Valid(x)     == [isValid |-> TRUE, errors |-> <<>>,
                       cleanedValue |-> x, type |-> expectedType]
  IN  IF isMissing(cleanedValue)
        THEN [isValid |-> FALSE, errors |-> << <<"Missing value">> >>,
              cleanedValue |-> NullValue, type |-> expectedType]
      ELSE CASE expectedType = "number" ->
                  LET numValue == parseFloat(cleanedValue)
                  IN  IF isNaN(numValue) THEN Invalid(<<"Invalid number format">>)
                      ELSE Valid(NumberValue(numValue))
             [] expectedType = "email" ->
                  IF ~emailRegexTest(cleanedValue) THEN Invalid(<<"Invalid email format">>)
                  ELSE Valid(StringValue(cleanedValue))
             [] expectedType = "date" ->
                  IF IsInvalidDate(cleanedValue) THEN Invalid(<<"Invalid date format">>)
                  ELSE Valid(StringValue(toISOString(cleanedValue)))
             [] expectedType = "boolean" ->
                  LET lowerValue == toLowerCase(cleanedValue)
                  IN  IF lowerValue \in TrueWords THEN Valid(BooleanValue(TRUE))
                      ELSE IF lowerValue \in FalseWords THEN Valid(BooleanValue(FALSE))
                      ELSE Invalid(<<"Invalid boolean value">>)
             [] expectedType = "string" ->
                  IF Len(cleanedValue) > MaxStringLength
                    THEN Invalid(<<"String too long (max 1000 characters)">>)
                    ELSE Valid(StringValue(cleanedValue))
             [] OTHER -> Valid(StringValue(cleanedValue))

\* validateValue(value, expectedType)
validateValue(value, expectedType) ==
  LET cleanedValue == trim(value)
      Invalid(msg) == [isValid |-> FALSE, errors |-> <<msg>>,
                       cleanedValue |-> StringValue(cleanedValue), type |-> expectedType]
      Valid(x)     == [isValid |-> TRUE, errors |-> <<>>,
                       cleanedValue |-> x, type |-> expectedType]
  IN  IF isMissing(cleanedValue)
        THEN [isValid |-> FALSE, errors |-> << <<"Missing value">> >>,
              cleanedValue |-> NullValue, type |-> expectedType]
      ELSE CASE expectedType = "number" ->
                  LET numValue == parseFloat(cleanedValue)
                  IN  IF isNaN(numValue) THEN Invalid(<<"Invalid number format">>)
                      ELSE Valid(NumberValue(numValue))
             [] expectedType = "email" ->
                  IF ~emailRegexTest(cleanedValue) THEN Invalid(<<"Invalid email format">>)
                  ELSE Valid(StringValue(cleanedValue))
             [] expectedType = "date" ->
                  IF IsInvalidDate(cleanedValue) THEN Invalid(<<"Invalid date format">>)
                  ELSE Valid(StringValue(toISOString(cleanedValue)))
             [] expectedType = "boolean" ->
                  LET lowerValue == toLowerCase(cleanedValue)
                  IN  IF lowerValue \in TrueWords THEN Valid(BooleanValue(TRUE))
                      ELSE IF lowerValue \in FalseWords THEN Valid(BooleanValue(FALSE))
                      ELSE Invalid(<<"Invalid boolean value">>)
             [] expectedType = "string" ->
                  IF Len(cleanedValue) > MaxStringLength
                    THEN Invalid(<<"String too long (max 1000 characters)">>)
                    ELSE Valid(StringValue(cleanedValue))
             [] OTHER -> Valid(StringValue(cleanedValue))

\* errors.push(entry)
push_front(errors, entry) == <<entry>> \o errors
push(errors, entry) == Append(errors, entry)

\* the forEach of validateRow over this.columns, from column k on
RECURSIVE validateColumns(_, _, _, _)
validateColumns(validator, rowData, k, acc) ==
  IF k > Len(validator.columns) THEN acc
  ELSE LET col          == validator.columns[k]
           value        == IF HasKey(rowData, col) THEN GetProp(rowData, col) ELSE <<>>
           expectedType == GetProp(validator.columnTypes, col)
           validation   == validateValue(value, expectedType)
       IN  validateColumns(validator, rowData, k + 1,
             [cleanedData |-> SetProp(acc.cleanedData, col, validation.cleanedValue),
              errors      |-> IF validation.isValid THEN acc.errors
                              ELSE push(acc.errors,
                                     col \o <<": ">> \o join(validation.errors, <<", ">>)),
              isValid     |-> acc.isValid /\ validation.isValid])

\* has / add on this.seenRows
seenRowsAfter_onlyLatest(seenRows, rowKey) == {rowKey}
seenRowsAfter(seenRows, rowKey) ==
  IF rowKey \in seenRows THEN seenRows ELSE seenRows \cup {rowKey}

\* a stored row as raw text values, before coercion
RawValues(rowData) ==
  [p \in 1..Len(rowData) |-> [key |-> rowData[p].key, value |-> StringValue(rowData[p].value)]]

validateRow_rawKey(validator, rowData, rowNumber) ==
  LET cells       == validateColumns(validator, rowData, 1,
                       [cleanedData |-> <<>>, errors |-> <<>>, isValid |-> TRUE])
      rowKey      == JSONStringify(RawValues(rowData))
      isDuplicate == rowKey \in validator.seenRows
  IN  [result    |-> [rowNumber   |-> rowNumber,
                      data        |-> cells.cleanedData,
                      errors      |-> cells.errors,
                      isDuplicate |-> isDuplicate,
                      isValid     |-> cells.isValid /\ ~isDuplicate],
       validator |-> [validator EXCEPT !.seenRows = seenRowsAfter(@, rowKey)]]

validateRow_validWhenDuplicate(validator, rowData, rowNumber) ==
  LET cells       == validateColumns(validator, rowData, 1,
                       [cleanedData |-> <<>>, errors |-> <<>>, isValid |-> TRUE])
      rowKey      == JSONStringify(cells.cleanedData)
      isDuplicate == rowKey \in validator.seenRows
  IN  [result    |-> [rowNumber   |-> rowNumber,
                      data        |-> cells.cleanedData,
                      errors      |-> cells.errors,
                      isDuplicate |-> isDuplicate,
                      isValid     |-> cells.isValid],
       validator |-> [validator EXCEPT !.seenRows = seenRowsAfter(@, rowKey)]]

validateRow_noDataWhenDuplicate(validator, rowData, rowNumber) ==
  LET cells       == validateColumns(validator, rowData, 1,
                       [cleanedData |-> <<>>, errors |-> <<>>, isValid |-> TRUE])
      rowKey      == JSONStringify(cells.cleanedData)
      isDuplicate == rowKey \in validator.seenRows
  IN  [result    |-> [rowNumber   |-> rowNumber,
                      data        |-> IF isDuplicate THEN RawValues(rowData)
                                      ELSE cells.cleanedData,
                      errors      |-> cells.errors,
                      isDuplicate |-> isDuplicate,
                      isValid     |-> cells.isValid /\ ~isDuplicate],
       validator |-> [validator EXCEPT !.seenRows = seenRowsAfter(@, rowKey)]]

\* validateRow(rowData, rowNumber): the result and the validator it leaves
validateRow(validator, rowData, rowNumber) ==
  LET cells       == validateColumns(validator, rowData, 1,
                       [cleanedData |-> <<>>, errors |-> <<>>, isValid |-> TRUE])
      rowKey      == JSONStringify(cells.cleanedData)
      isDuplicate == rowKey \in validator.seenRows
  IN  [result    |-> [rowNumber   |-> rowNumber,
                      data        |-> cells.cleanedData,
                      errors      |-> cells.errors,
                      isDuplicate |-> isDuplicate,
                      isValid     |-> cells.isValid /\ ~isDuplicate],
       validator |-> [validator EXCEPT !.seenRows = seenRowsAfter(@, rowKey)]]

\* the predicates of results.filter(...).length and of the allErrors loop
IsValidRow(r)     == r.isValid
IsDuplicateRow(r) == r.isDuplicate
IsErrorRow_allInvalid(r) == ~r.isValid
IsErrorRow(r)     == ~r.isValid /\ ~r.isDuplicate
HasErrors_notDuplicate(r) == Len(r.errors) > 0 /\ ~r.isDuplicate
HasErrors(r)      == Len(r.errors) > 0

FormatRowErrors(r) == <<"Row ", ToString(r.rowNumber), ": ">> \o join(r.errors, <<", ">>)

\* the forEach of getValidationSummary that builds allErrors
RECURSIVE allErrorsOf(_)
allErrorsOf(results) ==
  IF results = <<>> THEN <<>>
  ELSE (IF HasErrors(Head(results)) THEN <<FormatRowErrors(Head(results))>> ELSE <<>>)
       \o allErrorsOf(Tail(results))

\* getValidationSummary(results)
getValidationSummary(validator, results) ==
  [totalRows        |-> Len(results),
   validRows        |-> Len(SelectSeq(results, IsValidRow)),
   duplicateRows    |-> Len(SelectSeq(results, IsDuplicateRow)),
   errorRows        |-> Len(SelectSeq(results, IsErrorRow)),
   columnTypes      |-> validator.columnTypes,
   validationErrors |-> allErrorsOf(results),
   issues           |-> allErrorsOf(results)]

(***************************************************************************)
(* validateCSV: one call per slot.  The promise of a call is settled by    *)
(* the calls of resolve and reject recorded, in order, in settled.         *)
(***************************************************************************)
VARIABLES
  pc,         \* where the call of each slot stands
  file,       \* the text the FileReader delivers for the slot's file
  lines,      \* const lines
  headers,    \* const headers
  validator,  \* const validator: no element before construction, then one
  results,    \* const results
  i,          \* loop variable of the row loop (index into lines, from 0)
  settled     \* the calls of resolve / reject made so far

(***************************************************************************)
(* The application around validateCSV: the start-up script, the Index      *)
(* page, the FileUpload component, the API service and the database        *)
(* service with its three tables.                                          *)
(***************************************************************************)
VARIABLES
  app,                   \* "starting": the start-up deleteAllAPILogs is in flight; then "mounted"
  deleting,              \* calls of deleteAllAPILogs made by the effect and not yet answered
  logAPICall,            \* databaseService.logAPICall: "insert", or "noop" once replaced
  csv_uploads,           \* table csv_uploads, in order of insertion
  csv_data,              \* table csv_data, in order of insertion
  api_logs,              \* table api_logs, in order of insertion
  drops,                 \* calls of onDrop so far
  files,                 \* FileUpload: const [files, setFiles]
  uploading,             \* FileUpload: const [uploading, setUploading]
  progress,              \* FileUpload: const [progress, setProgress], as numerator and denominator
  validationResults,     \* FileUpload: const [validationResults, setValidationResults]
  validationSummary,     \* FileUpload: const [validationSummary, setValidationSummary]: none or one
  toasts,                \* the titles given to toast(), in order
  running,               \* the call of processFiles: where it stands, its files, its i
  stored,                \* per slot: the call of apiService.storeUpload for the slot's file
  handlers,              \* per slot: the call of handleUploadSuccess for the slot's file
  uploadedData,          \* Index: const [uploadedData, setUploadedData]
  refreshTrigger,        \* Index: const [refreshTrigger, setRefreshTrigger]
  latestUploadTimestamp, \* Index: const [latestUploadTimestamp, setLatestUploadTimestamp]
  latestUploadId,        \* Index: const [latestUploadId, setLatestUploadId]
  hasUploaded,           \* Index: const [hasUploaded, setHasUploaded]
  client,                \* the request of the records table to the API service
  reply,                 \* what the last such request returned or threw: none or one
  asked                  \* requests of the records table so far

validationVars == <<pc, file, lines, headers, validator, results, i, settled>>

tableVars == <<csv_uploads, csv_data>>

uploadVars ==
  <<drops, files, uploading, progress, validationResults, validationSummary, toasts, running, stored>>

indexVars ==
  <<handlers, uploadedData, refreshTrigger, latestUploadTimestamp, latestUploadId, hasUploaded>>

clientVars == <<client, reply, asked>>

appVars ==
  <<app, deleting, logAPICall, api_logs, tableVars, uploadVars, indexVars, clientVars>>

vars == <<validationVars, appVars>>

\* a seen-row set kept outside the instances, shared by all validators
newSeenRows_shared ==
  UNION {validator[s][1].seenRows : s \in {x \in Slots : validator[x] # <<>>}}

\* private seenRows: Set<string> = new Set(): each instance starts with its own empty set
newSeenRows == {}

\* new CSVValidator(columns)
NewCSVValidator(columns) ==
  [columns     |-> columns,
   seenRows    |-> newSeenRows,
   columnTypes |-> detectColumnTypes(columns)]

\* csv.split('\n').filter(line => line.trim())
IsRetained_noTrim(line) == line # <<>>
IsRetained(line) == trim(line) # <<>>
retainedLines(csv) == SelectSeq(split(csv, "\n"), IsRetained)

\* line.split(',').map(v => v.trim().replace(/"/g, ''))
parseFields(line) ==
  LET parts == split(line, ",")
  IN  [k \in 1..Len(parts) |-> stripQuotes(trim(parts[k]))]

\* headers.forEach((header, index) => rowData[header] = values[index] || '')
RECURSIVE zipRow(_, _, _, _)
zipRow(hdrs, values, k, rowData) ==
  IF k > Len(hdrs) THEN rowData
  ELSE zipRow(hdrs, values, k + 1,
         SetProp(rowData, hdrs[k], IF k <= Len(values) THEN values[k] ELSE <<>>))

\* the index the row loop gives the data line at place k of lines (place 1 is the header)
rowNumberOf_fileLine(k) == k
rowNumberOf(k) == k - 1

\* if (lines.length === 0)
isEmptyFile_headerOnly(ls) == Len(ls) <= 1
isEmptyFile(ls) == Len(ls) = 0

Resolve(value) == [kind |-> "resolve", value |-> value, error |-> <<>>]
Reject(error)  == [kind |-> "reject", value |-> <<>>, error |-> error]

(***************************************************************************)
(* The database service: what each request does to the tables when the     *)
(* database answers it.  An identifier the database generates is the       *)
(* number of the record in its table, and created_at is that number too.   *)
(***************************************************************************)
\* Object.keys(obj)
ObjectKeys(obj) == [p \in 1..Len(obj) |-> obj[p].key]

\* a coerced value as the JSONB column holds it: the request body is JSON, in
\* which a number that is not finite is null and -0 is 0
toJSON(x) ==
  IF x.t # "number" THEN x
  ELSE IF x.v.k # "num" THEN NullValue
  ELSE IF x.v.m = 0 THEN NumberValue([x.v EXCEPT !.neg = FALSE])
  ELSE x

rowDataToJSON(data) == [p \in 1..Len(data) |-> [key |-> data[p].key, value |-> toJSON(data[p].value)]]

insertUpload_processing(table, filename, summary) ==
  Append(table,
    [id                 |-> Len(table) + 1,
     filename           |-> filename,
     total_rows         |-> summary.totalRows,
     valid_rows         |-> summary.validRows,
     duplicate_rows     |-> summary.duplicateRows,
     error_rows         |-> summary.errorRows,
     column_names       |-> ObjectKeys(summary.columnTypes),
     upload_status      |-> "processing",
     validation_summary |-> summary,
     created_at         |-> Len(table) + 1])

\* storeUpload: .from('csv_uploads').insert({...}).select('id').single()
insertUpload(table, filename, summary) ==
  Append(table,
    [id                 |-> Len(table) + 1,
     filename           |-> filename,
     total_rows         |-> summary.totalRows,
     valid_rows         |-> summary.validRows,
     duplicate_rows     |-> summary.duplicateRows,
     error_rows         |-> summary.errorRows,
     column_names       |-> ObjectKeys(summary.columnTypes),
     upload_status      |-> "completed",
     validation_summary |-> summary,
     created_at         |-> Len(table) + 1])

\* storeUpload: const rowsToInsert = validationResults.map(...)
rowsToInsert(uploadId, rs) ==
  [k \in 1..Len(rs) |->
     [upload_id           |-> uploadId,
      row_data            |-> rowDataToJSON(rs[k].data),
      original_row_number |-> rs[k].rowNumber,
      is_duplicate        |-> rs[k].isDuplicate,
      validation_errors   |-> rs[k].errors]]

\* storeUpload: if (rowsError) throw; if (uploadError) throw
rowsErrorThrows_ignored(ok) == FALSE
rowsErrorThrows(ok) == ~ok

uploadErrorThrows(ok) == ~ok

\* getUploads: .select('*').order('created_at', { ascending: false })
getUploads(table) == [k \in 1..Len(table) |-> table[Len(table) + 1 - k]]

\* .eq('upload_id', uploadId).eq('is_duplicate', false)
eqUploadNotDuplicate(table, uploadId) ==
  SelectSeq(table, LAMBDA r : r.upload_id = uploadId /\ r.is_duplicate = FALSE)

\* .order('original_row_number'): ascending, rows of one number in table order
RankIn(rows, k) ==
  Cardinality({j \in 1..Len(rows) :
     \/ rows[j].original_row_number < rows[k].original_row_number
     \/ rows[j].original_row_number = rows[k].original_row_number /\ j <= k})

orderByRowNumber(rows) ==
  [n \in 1..Len(rows) |-> rows[CHOOSE k \in 1..Len(rows) : RankIn(rows, k) = n]]

\* .range(from, to): the rows at positions from..to, counted from 0
range(rows, from, to) ==
  SubSeq(rows, from + 1, IF to + 1 < Len(rows) THEN to + 1 ELSE Len(rows))

\* const offset = (page - 1) * limit
offsetOf_pageTimesLimit(page, limit) == page * limit
offsetOf(page, limit) == (page - 1) * limit

\* getUploadData(uploadId, page, limit), answered without an error
getUploadData(table, uploadId, page, limit) ==
  [data  |-> range(orderByRowNumber(eqUploadNotDuplicate(table, uploadId)),
                   offsetOf(page, limit), offsetOf(page, limit) + limit - 1),
   total |-> Len(eqUploadNotDuplicate(table, uploadId))]

\* Number::toString for a decimal of up to 21 digits before the point
RECURSIVE DigitsOf(_)
DigitsOf(m) ==
  IF m < 10 THEN <<ToString(m)>> ELSE DigitsOf(m \div 10) \o <<ToString(m % 10)>>

Zeros(n) == [k \in 1..n |-> "0"]

MaxPlainDigits == 21
MinPlainPoint == -6

UnsignedNumberText(digits, point) ==
  IF Len(digits) <= point /\ point <= MaxPlainDigits
    THEN digits \o Zeros(point - Len(digits))
  ELSE IF 0 < point /\ point <= MaxPlainDigits
    THEN SubSeq(digits, 1, point) \o <<".">> \o SubSeq(digits, point + 1, Len(digits))
  ELSE IF MinPlainPoint < point /\ point <= 0
    THEN <<"0", ".">> \o Zeros(0 - point) \o digits
  ELSE <<digits[1]>> \o (IF Len(digits) > 1 THEN <<".">> \o Tail(digits) ELSE <<>>)
         \o <<"e", IF point - 1 < 0 THEN "-" ELSE "+">>
         \o DigitsOf(IF point - 1 < 0 THEN 1 - point ELSE point - 1)

NumberText(n) ==
  IF n.m = 0 THEN <<"0">>
  ELSE (IF n.neg THEN <<"-">> ELSE <<>>)
         \o UnsignedNumberText(DigitsOf(n.m), Len(DigitsOf(n.m)) + n.e)

\* String(value) and JSON.stringify(value) of a value read from a JSONB column
String(x) ==
  CASE x.t = "null"    -> <<"n", "u", "l", "l">>
    [] x.t = "boolean" -> IF x.v = <<"true">> THEN <<"t", "r", "u", "e">>
                                              ELSE <<"f", "a", "l", "s", "e">>
    [] x.t = "string"  -> x.v
    [] x.t = "number"  -> NumberText(x.v)

storedValueText(x) ==
  IF x.t = "string" THEN <<"\"">> \o JSONQuote(x.v) \o <<"\"">> ELSE String(x)

storedRowText(row_data) ==
  <<"{">>
    \o join([p \in 1..Len(row_data) |->
               <<"\"">> \o JSONQuote(row_data[p].key) \o <<"\"", ":">>
                 \o storedValueText(row_data[p].value)], <<",">>)
    \o <<"}">>

\* searchData: the filter over allData
matchesSearch(row, searchTerm) ==
  \/ includes(toLowerCase(storedRowText(row.row_data)), searchTerm)
  \/ \E p \in 1..Len(row.row_data) :
       includes(toLowerCase(String(row.row_data[p].value)), searchTerm)

SearchFetchLimit == 1000
SearchResultLimit == 100

\* .eq('is_duplicate', false), and .eq('upload_id', uploadId) if (uploadId)
searchScope(table, uploadId) ==
  SelectSeq(table, LAMBDA r :
    r.is_duplicate = FALSE /\ (uploadId # <<>> => r.upload_id = uploadId[1]))

\* searchData(query, uploadId) past the test of query.trim(), answered without an error
searchData(table, query, uploadId) ==
  LET allData      == range(searchScope(table, uploadId), 0, SearchFetchLimit - 1)
      filteredData == SelectSeq(allData, LAMBDA r : matchesSearch(r, toLowerCase(query)))
  IN  range(filteredData, 0, SearchResultLimit - 1)

\* deleteAllAPILogs: .from('api_logs').delete().neq('id', ''), answered without an error
deleteRows_none(table) == table
deleteRows(table) == <<>>

(***************************************************************************)
(* The API service: the path of each request and the log entry it writes.  *)
(***************************************************************************)
\* encodeURIComponent on the characters of the ASCII range
ReservedChars ==
  <<" ", "\"", "#", "$", "%", "&", "+", ",", "/", ":", ";", "<", "=", ">", "?", "@",
    "[", "\\", "]", "^", "{", "|", "}", "\t", "\n", "\r">>
PercentCodes ==
  <<"%20", "%22", "%23", "%24", "%25", "%26", "%2B", "%2C", "%2F", "%3A", "%3B", "%3C",
    "%3D", "%3E", "%3F", "%40", "%5B", "%5C", "%5D", "%5E", "%7B", "%7C", "%7D",
    "%09", "%0A", "%0D">>

encodeURIComponent(s) ==
  [p \in 1..Len(s) |->
     IF \E j \in 1..Len(ReservedChars) : ReservedChars[j] = s[p]
       THEN PercentCodes[CHOOSE j \in 1..Len(ReservedChars) : ReservedChars[j] = s[p]]
       ELSE s[p]]

\* the decoding of URLSearchParams: + is a space, %XX the character
decodeParam(s) ==
  [p \in 1..Len(s) |->
     IF s[p] = "+" THEN " "
     ELSE IF \E j \in 1..Len(PercentCodes) : PercentCodes[j] = s[p]
       THEN ReservedChars[CHOOSE j \in 1..Len(PercentCodes) : PercentCodes[j] = s[p]]
       ELSE s[p]]

\* Object.fromEntries(new URLSearchParams(query)), from pair k on
RECURSIVE fromEntries(_, _, _)
fromEntries(pairs, k, obj) ==
  IF k > Len(pairs) THEN obj
  ELSE IF pairs[k] = <<>> THEN fromEntries(pairs, k + 1, obj)
  ELSE LET parts == split(pairs[k], "=")
       IN  fromEntries(pairs, k + 1,
             SetProp(obj, decodeParam(parts[1]),
                     decodeParam(join(Tail(parts), <<"=">>))))

\* logRequest: const queryParams = path.includes('?') ? ... : {}
queryParamsOf(path) ==
  IF includes(path, <<"?">>)
    THEN fromEntries(split(split(path, "?")[2], "&"), 1, <<>>)
    ELSE <<>>

StatusOK == 200
StatusCreated == 201
NoStatus == 0

PathUploads == <<"/api/uploads">>

PathUploadData(uploadId, page, limit) ==
  <<"/api/uploads/", ToString(uploadId), "/data", "?", "page", "=", ToString(page),
    "&", "limit", "=", ToString(limit)>>

PathSearch(query, uploadId) ==
  <<"/api/search", "?", "q", "=">> \o encodeURIComponent(query)
    \o (IF uploadId # <<>> THEN <<"&", "uploadId", "=", ToString(uploadId[1])>> ELSE <<>>)

\* the record logAPICall inserts for logRequest(method, path, options, startTime, response, error):
\* response?.status || 0 and error?.message || ''
logEntry(method, path, body, status, error) ==
  [method          |-> method,
   path            |-> path,
   query_params    |-> queryParamsOf(path),
   request_body    |-> body,
   response_status |-> status,
   error_message   |-> error]

\* error.message of a request the database refuses
DbMessage == "error.message"

\* logAPICall: the insert into api_logs is answered, with the entry stored or with an
\* error that is written to the console and not thrown
logInserted(entry, ok) ==
  api_logs' = IF ok THEN Append(api_logs, entry) ELSE api_logs

\* the records of a call of handleUploadSuccess, of processFiles and of a request
NoHandler == [at |-> "none", uploads |-> <<>>, error |-> <<>>]
NoRun == [at |-> "idle", files |-> <<>>, i |-> 0, slot |-> 0, uploadId |-> 0, error |-> <<>>]
NoRequest == [at |-> "idle", op |-> "none", args |-> <<>>, result |-> <<>>, error |-> <<>>]

\* the log entries a session finds in the table when it starts
\* api_logs holds an entry of an earlier session
StoredLogs == <<logEntry("GET", PathUploads, <<>>, StatusOK, <<>>)>>

InitApp ==
  /\ app = "starting"
  /\ deleting = 0
  /\ logAPICall = "insert"
  /\ csv_uploads = <<>>
  /\ csv_data = <<>>
  /\ api_logs = StoredLogs
  /\ drops = 0
  /\ files = <<>>
  /\ uploading = FALSE
  /\ progress = [n |-> 0, d |-> 1]
  /\ validationResults = <<>>
  /\ validationSummary = <<>>
  /\ toasts = <<>>
  /\ running = NoRun
  /\ stored = [s \in Slots |-> [at |-> "none", id |-> 0]]
  /\ handlers = [s \in Slots |-> NoHandler]
  /\ uploadedData = <<>>
  /\ refreshTrigger = 0
  /\ latestUploadTimestamp = <<>>
  /\ latestUploadId = <<>>
  /\ hasUploaded = FALSE
  /\ client = NoRequest
  /\ reply = <<>>
  /\ asked = 0

Init ==
  /\ pc        = [s \in Slots |-> "idle"]
  /\ file      = [s \in Slots |-> <<>>]
  /\ lines     = [s \in Slots |-> <<>>]
  /\ headers   = [s \in Slots |-> <<>>]
  /\ validator = [s \in Slots |-> <<>>]
  /\ results   = [s \in Slots |-> <<>>]
  /\ i         = [s \in Slots |-> 0]
  /\ settled   = [s \in Slots |-> <<>>]
  /\ InitApp

\* validateCSV(file): new Promise, new FileReader, reader.readAsText(file)
validateCSV(s, csv) ==
  /\ pc[s] = "idle"
  /\ pc' = [pc EXCEPT ![s] = "reading"]
  /\ file' = [file EXCEPT ![s] = csv]
  /\ UNCHANGED <<lines, headers, validator, results, i, settled>>

\* reader.onerror
onerror(s) ==
  /\ pc[s] = "reading"
  /\ settled' = [settled EXCEPT ![s] = Append(@, Reject(<<"Failed to read file">>))]
  /\ pc' = [pc EXCEPT ![s] = "rejected"]
  /\ UNCHANGED <<file, lines, headers, validator, results, i>>

\* reader.onload, up to the row loop
onload(s) ==
  /\ pc[s] = "reading"
  /\ LET ls == retainedLines(file[s])
     IN  /\ lines' = [lines EXCEPT ![s] = ls]
         /\ IF isEmptyFile(ls)
              THEN /\ settled' = [settled EXCEPT ![s] = Append(@, Reject(<<"Empty CSV file">>))]
                   /\ pc' = [pc EXCEPT ![s] = "rejected"]
                   /\ UNCHANGED <<headers, validator, results, i>>
              ELSE /\ headers' = [headers EXCEPT ![s] = parseFields(ls[1])]
                   /\ validator' = [validator EXCEPT ![s] = <<NewCSVValidator(parseFields(ls[1]))>>]
                   /\ results' = [results EXCEPT ![s] = <<>>]
                   /\ i' = [i EXCEPT ![s] = 1]
                   /\ pc' = [pc EXCEPT ![s] = "rows"]
                   /\ UNCHANGED settled
  /\ UNCHANGED file

\* one turn of the row loop: for (let i = 1; i < lines.length; i++) { ... }
validateNextRow(s) ==
  /\ pc[s] = "rows"
  /\ i[s] < Len(lines[s])
  /\ LET values  == parseFields(lines[s][i[s] + 1])
         rowData == zipRow(headers[s], values, 1, <<>>)
         out     == validateRow(validator[s][1], rowData, rowNumberOf(i[s] + 1))
     IN  /\ validator' = [validator EXCEPT ![s] = <<out.validator>>]
         /\ results' = [results EXCEPT ![s] = Append(@, out.result)]
  /\ i' = [i EXCEPT ![s] = @ + 1]
  /\ UNCHANGED <<pc, file, lines, headers, settled>>

\* after the loop: getValidationSummary and resolve
resolveValidation(s) ==
  /\ pc[s] = "rows"
  /\ ~(i[s] < Len(lines[s]))
  /\ settled' = [settled EXCEPT ![s] =
       Append(@, Resolve([results |-> results[s],
                          summary |-> getValidationSummary(validator[s][1], results[s])]))]
  /\ pc' = [pc EXCEPT ![s] = "resolved"]
  /\ UNCHANGED <<file, lines, headers, validator, results, i>>

(***************************************************************************)
(* Start-up and the Index page.                                            *)
(***************************************************************************)
\* the time of the mount, before every created_at
MountTime == 0

\* useEffect(() => { apiService.deleteAllAPILogs?.().catch(...) }, [refreshTrigger]):
\* run by the render of the mount and by the render after every change of
\* refreshTrigger.  The run only sends the request, which the database answers at
\* any later time, so it is taken in the step that makes the change.
refreshTriggerEffect == deleting' = deleting + 1

\* main.tsx: await databaseService.deleteAllAPILogs() is answered; then
\* root.render(<App />), and the effects of the mount: the [] effect and
\* the first run of the [refreshTrigger] effect
startup(ok) ==
  /\ app = "starting"
  /\ IF ok
       THEN /\ api_logs' = deleteRows(api_logs)
            /\ logAPICall' = "noop"
       ELSE UNCHANGED <<api_logs, logAPICall>>
  /\ app' = "mounted"
  /\ latestUploadTimestamp' = <<MountTime>>
  /\ latestUploadId' = <<>>
  /\ refreshTriggerEffect
  /\ UNCHANGED <<validationVars, tableVars, uploadVars, clientVars,
                 handlers, uploadedData, refreshTrigger, hasUploaded>>

\* a call of deleteAllAPILogs made by the effect is answered
deleteAllAPILogs(ok) ==
  /\ deleting > 0
  /\ deleting' = deleting - 1
  /\ IF ok
       THEN /\ api_logs' = deleteRows(api_logs)
            /\ logAPICall' = "noop"
       ELSE UNCHANGED <<api_logs, logAPICall>>
  /\ UNCHANGED <<validationVars, app, tableVars, uploadVars, indexVars,
                 clientVars>>

\* handleUploadSuccess(data), up to the await in fetchLatestUploadTimestamp
handleUploadSuccess(s, data) ==
  /\ uploadedData' = data
  /\ refreshTrigger' = refreshTrigger + 1
  /\ refreshTriggerEffect
  /\ handlers' = [handlers EXCEPT ![s] = [NoHandler EXCEPT !.at = "getUploads"]]

\* fetchLatestUploadTimestamp after the await, and setHasUploaded(true)
uploadsFetched(s, uploads, error) ==
  /\ IF error = <<>> /\ Len(uploads) > 0
       THEN /\ latestUploadTimestamp' = <<uploads[1].created_at>>
            /\ latestUploadId' = <<uploads[1].id>>
       ELSE UNCHANGED <<latestUploadTimestamp, latestUploadId>>
  /\ hasUploaded' = TRUE
  /\ handlers' = [handlers EXCEPT ![s] = [NoHandler EXCEPT !.at = "done"]]

\* apiService.getUploads of the handler: databaseService.getUploads is answered
handlerGetUploads(s, ok) ==
  /\ handlers[s].at = "getUploads"
  /\ LET uploads == IF ok THEN getUploads(csv_uploads) ELSE <<>>
         error   == IF ok THEN <<>> ELSE <<"Failed to fetch uploads: ", DbMessage>>
     IN  IF logAPICall = "noop"
           THEN uploadsFetched(s, uploads, error)
           ELSE /\ handlers' = [handlers EXCEPT ![s] =
                      [at |-> "logRequest", uploads |-> uploads, error |-> error]]
                /\ UNCHANGED <<latestUploadTimestamp, latestUploadId, hasUploaded>>
  /\ UNCHANGED <<validationVars, app, deleting, logAPICall, api_logs, tableVars, uploadVars,
                 clientVars, uploadedData, refreshTrigger>>

\* apiService.getUploads of the handler: the insert of its log entry is answered
handlerLogRequest(s, ok) ==
  /\ handlers[s].at = "logRequest"
  /\ logInserted(logEntry("GET", PathUploads, <<>>,
                          IF handlers[s].error = <<>> THEN StatusOK ELSE NoStatus,
                          handlers[s].error), ok)
  /\ uploadsFetched(s, handlers[s].uploads, handlers[s].error)
  /\ UNCHANGED <<validationVars, app, deleting, logAPICall, tableVars, uploadVars, clientVars,
                 uploadedData, refreshTrigger>>

(***************************************************************************)
(* The FileUpload component.                                               *)
(***************************************************************************)
\* the user drops, removes and clicks when the calls that the page has made after
\* earlier uploads have been answered
pageSettled ==
  /\ deleting = 0
  /\ \A s \in Slots : handlers[s].at \in {"none", "done"}

\* and turns to the records table after the uploads
beforeRequests == asked = 0 /\ client.at = "idle"

\* file.type === 'text/csv' || file.name.endsWith('.csv')
endsWith(s, suffix) ==
  Len(s) >= Len(suffix) /\ SubSeq(s, Len(s) - Len(suffix) + 1, Len(s)) = suffix

isCSVFile(f) == f.type = "text/csv" \/ endsWith(f.name, <<".", "c", "s", "v">>)

\* onDrop(acceptedFiles), between two runs of processFiles
onDrop(acceptedFiles) ==
  /\ app = "mounted"
  /\ beforeRequests
  /\ running.at = "idle"
  /\ pageSettled
  /\ drops < MaxDrops
  /\ drops' = drops + 1
  /\ LET csvFiles == SelectSeq(acceptedFiles, isCSVFile)
     IN  IF Len(csvFiles) = 0
           THEN /\ toasts' = Append(toasts, "Invalid file type")
                /\ UNCHANGED <<files, validationResults, validationSummary>>
           ELSE /\ files' = csvFiles
                /\ validationResults' = <<>>
                /\ validationSummary' = <<>>
                /\ UNCHANGED toasts
  /\ UNCHANGED <<validationVars, app, deleting, logAPICall, api_logs, tableVars,
                 uploading, progress, running, stored, indexVars, clientVars>>

\* removeFile(index), index counted from 0, between two runs of processFiles
removeFile(index) ==
  /\ app = "mounted"
  /\ beforeRequests
  /\ running.at = "idle"
  /\ pageSettled
  /\ index < Len(files)
  /\ files' = SubSeq(files, 1, index) \o SubSeq(files, index + 2, Len(files))
  /\ UNCHANGED <<validationVars, app, deleting, logAPICall, api_logs, tableVars, drops,
                 uploading, progress, validationResults, validationSummary, toasts,
                 running, stored, indexVars, clientVars>>

FullProgress == 100

\* the slot of the next call of validateCSV
idleSlots == {s \in Slots : pc[s] = "idle"}
nextSlot == CHOOSE s \in idleSlots : \A t \in idleSlots : s <= t

\* a turn of for (let i = 0; i < files.length; i++), up to await validateCSV(file)
beginFile(fs, k) ==
  /\ progress' = [n |-> k * FullProgress, d |-> Len(fs)]
  /\ validateCSV(nextSlot, fs[k + 1].text)
  /\ running' = [NoRun EXCEPT !.at = "validateCSV", !.files = fs, !.i = k, !.slot = nextSlot]

\* after the loop: setProgress(100), and finally setUploading(false)
endOfFiles ==
  /\ progress' = [n |-> FullProgress, d |-> 1]
  /\ uploading' = FALSE
  /\ running' = NoRun
  /\ UNCHANGED validationVars

\* <Button onClick={processFiles} disabled={uploading}>
buttonDisabled_never == FALSE
buttonDisabled == uploading

\* processFiles(), up to the first await
processFiles ==
  /\ app = "mounted"
  /\ beforeRequests
  /\ pageSettled
  /\ ~buttonDisabled
  /\ Len(files) > 0
  /\ Cardinality(idleSlots) >= Len(files)
  /\ uploading' = TRUE
  /\ beginFile(files, 0)
  /\ UNCHANGED <<app, deleting, logAPICall, api_logs, tableVars, drops, files,
                 validationResults, validationSummary, toasts, stored, indexVars,
                 clientVars>>

\* catch (error) { toast(...) } finally { setUploading(false) }
failureToasts_twice == <<"Upload failed", "Upload failed">>
failureToasts == <<"Upload failed">>

catchError_noFinally ==
  /\ toasts' = toasts \o failureToasts
  /\ running' = NoRun
  /\ UNCHANGED uploading

catchError ==
  /\ toasts' = toasts \o failureToasts
  /\ uploading' = FALSE
  /\ running' = NoRun

\* const validation = await validateCSV(file), for the file of slot s
validationOf(s) == settled[s][1].value

\* processFiles after await validateCSV(file), up to the await in databaseService.storeUpload
validated ==
  /\ running.at = "validateCSV"
  /\ settled[running.slot] # <<>>
  /\ IF settled[running.slot][1].kind = "reject"
       THEN /\ catchError
            /\ UNCHANGED <<validationResults, validationSummary, stored>>
       ELSE /\ validationResults' = settled[running.slot][1].value.results
            /\ validationSummary' = <<settled[running.slot][1].value.summary>>
            /\ stored' = [stored EXCEPT ![running.slot] = [at |-> "called", id |-> 0]]
            /\ running' = [running EXCEPT !.at = "insertUpload"]
            /\ UNCHANGED <<toasts, uploading>>
  /\ UNCHANGED <<validationVars, app, deleting, logAPICall, api_logs, tableVars,
                 drops, files, progress, indexVars, clientVars>>

\* processFiles after await apiService.storeUpload(...) has returned: the toast,
\* onUploadSuccess(validation.results.map(r => r.data)), and the next turn of the loop
storeUploadReturned ==
  /\ stored' = [stored EXCEPT ![running.slot] = [at |-> "returned", id |-> running.uploadId]]
  /\ toasts' = Append(toasts, "File processed successfully")
  /\ handleUploadSuccess(running.slot,
       [k \in 1..Len(validationOf(running.slot).results) |->
          validationOf(running.slot).results[k].data])
  /\ IF running.i + 1 < Len(running.files)
       THEN beginFile(running.files, running.i + 1) /\ UNCHANGED uploading
       ELSE endOfFiles
  /\ UNCHANGED <<latestUploadTimestamp, latestUploadId, hasUploaded>>

\* processFiles after await apiService.storeUpload(...) has thrown
storeUploadThrew ==
  /\ stored' = [stored EXCEPT ![running.slot] = [at |-> "thrown", id |-> running.uploadId]]
  /\ catchError
  /\ UNCHANGED <<validationVars, progress, deleting, indexVars>>

afterStoreUpload_alwaysLogs(error) ==
  /\ running' = [running EXCEPT !.at = "logRequest", !.error = error]
  /\ UNCHANGED <<validationVars, progress, uploading, toasts, stored, deleting,
                 indexVars>>

\* apiService.storeUpload after databaseService.storeUpload has thrown or returned:
\* await this.logRequest(...), which is answered at once when logAPICall is the no-op
afterStoreUpload(error) ==
  IF logAPICall = "noop"
    THEN IF error = <<>> THEN storeUploadReturned ELSE storeUploadThrew
    ELSE /\ running' = [running EXCEPT !.at = "logRequest", !.error = error]
         /\ UNCHANGED <<validationVars, progress, uploading, toasts, stored, deleting,
                        indexVars>>

\* databaseService.storeUpload: the insert into csv_uploads is answered
uploadInserted(ok) ==
  /\ running.at = "insertUpload"
  /\ IF uploadErrorThrows(ok)
       THEN /\ afterStoreUpload(<<"Failed to store upload: ", DbMessage>>)
            /\ UNCHANGED csv_uploads
       ELSE /\ csv_uploads' = insertUpload(csv_uploads, running.files[running.i + 1].name,
                                           validationOf(running.slot).summary)
            /\ running' = [running EXCEPT !.at = "insertRows",
                                          !.uploadId = Len(csv_uploads) + 1]
            /\ UNCHANGED <<validationVars, progress, uploading, toasts, stored, deleting,
                           indexVars>>
  /\ UNCHANGED <<app, logAPICall, api_logs, csv_data, drops, files, validationResults,
                 validationSummary, clientVars>>

\* databaseService.storeUpload: the insert into csv_data is answered
rowsInserted(ok) ==
  /\ running.at = "insertRows"
  /\ csv_data' = IF ok
                   THEN csv_data \o rowsToInsert(running.uploadId,
                                            validationOf(running.slot).results)
                   ELSE csv_data
  /\ IF rowsErrorThrows(ok)
       THEN afterStoreUpload(<<"Failed to store CSV data: ", DbMessage>>)
       ELSE afterStoreUpload(<<>>)
  /\ UNCHANGED <<app, logAPICall, api_logs, csv_uploads, drops, files, validationResults,
                 validationSummary, clientVars>>

storeUploadLogRequest_throwsLogError(ok) ==
  /\ running.at = "logRequest"
  /\ logInserted(logEntry("POST", PathUploads,
                          <<[filename |-> running.files[running.i + 1].name,
                             summary  |-> validationOf(running.slot).summary]>>,
                          IF running.error = <<>> THEN StatusCreated ELSE NoStatus,
                          running.error), ok)
  /\ IF running.error = <<>> /\ ok THEN storeUploadReturned ELSE storeUploadThrew
  /\ UNCHANGED <<app, logAPICall, tableVars, drops, files, validationResults,
                 validationSummary, clientVars>>

\* apiService.storeUpload: the insert of its log entry is answered
storeUploadLogRequest(ok) ==
  /\ running.at = "logRequest"
  /\ logInserted(logEntry("POST", PathUploads,
                          <<[filename |-> running.files[running.i + 1].name,
                             summary  |-> validationOf(running.slot).summary]>>,
                          IF running.error = <<>> THEN StatusCreated ELSE NoStatus,
                          running.error), ok)
  /\ IF running.error = <<>> THEN storeUploadReturned ELSE storeUploadThrew
  /\ UNCHANGED <<app, logAPICall, tableVars, drops, files, validationResults,
                 validationSummary, clientVars>>

(***************************************************************************)
(* The requests of the records table to the API service.                   *)
(***************************************************************************)
\* what the database service returns for the request when the database answers it
resultOf(op, args) ==
  CASE op = "getUploads"    -> getUploads(csv_uploads)
    [] op = "getUploadData" -> getUploadData(csv_data, args[1], args[2], args[3])
    [] op = "searchData"    -> searchData(csv_data, args[1], args[2])

\* the message of the error the database service throws for the request
errorOf(op) ==
  CASE op = "getUploads"    -> <<"Failed to fetch uploads: ", DbMessage>>
    [] op = "getUploadData" -> <<"Failed to fetch upload data: ", DbMessage>>
    [] op = "searchData"    -> <<"Search failed: ", "Failed to fetch data for search: ",
                                 DbMessage>>

pathOf(op, args) ==
  CASE op = "getUploads"    -> PathUploads
    [] op = "getUploadData" -> PathUploadData(args[1], args[2], args[3])
    [] op = "searchData"    -> PathSearch(args[1], args[2])

\* the API service returns result or throws error to the records table
replied(result, error) ==
  /\ reply' = <<[op |-> client.op, args |-> client.args, result |-> result, error |-> error]>>
  /\ client' = NoRequest

\* await this.logRequest(...) of the request
afterRequest(result, error) ==
  IF logAPICall = "noop"
    THEN replied(result, error)
    ELSE /\ client' = [client EXCEPT !.at = "logRequest", !.result = result, !.error = error]
         /\ UNCHANGED reply

\* searchData: if (!query.trim()) return []
isBlankQuery(op, args) == op = "searchData" /\ trim(args[1]) = <<>>

\* the records table calls getUploads, getUploadData or searchData of the API service;
\* the user turns to the table when the page has no call in flight
request(op, args) ==
  /\ app = "mounted"
  /\ hasUploaded
  /\ running.at = "idle"
  /\ pageSettled
  /\ op = "getUploadData" => args[1] \in 1..Len(csv_uploads)
  /\ client.at = "idle"
  /\ asked < MaxRequests
  /\ asked' = asked + 1
  /\ IF isBlankQuery(op, args)
       THEN IF logAPICall = "noop"
              THEN /\ reply' = <<[op |-> op, args |-> args, result |-> <<>>, error |-> <<>>]>>
                   /\ client' = NoRequest
              ELSE /\ client' = [NoRequest EXCEPT !.at = "logRequest", !.op = op,
                                                  !.args = args]
                   /\ reply' = <<>>
       ELSE /\ client' = [NoRequest EXCEPT !.at = "database", !.op = op, !.args = args]
            /\ reply' = <<>>
  /\ UNCHANGED <<validationVars, app, deleting, logAPICall, api_logs, tableVars,
                 uploadVars, indexVars>>

\* the database answers the request
requestAnswered(ok) ==
  /\ client.at = "database"
  /\ IF ok THEN afterRequest(resultOf(client.op, client.args), <<>>)
           ELSE afterRequest(<<>>, errorOf(client.op))
  /\ UNCHANGED <<validationVars, app, deleting, logAPICall, api_logs, tableVars,
                 uploadVars, indexVars, asked>>

\* the insert of the request's log entry is answered
requestLogRequest(ok) ==
  /\ client.at = "logRequest"
  /\ logInserted(logEntry("GET", pathOf(client.op, client.args), <<>>,
                          IF client.error = <<>> THEN StatusOK ELSE NoStatus,
                          client.error), ok)
  /\ replied(client.result, client.error)
  /\ UNCHANGED <<validationVars, app, deleting, logAPICall, tableVars,
                 uploadVars, indexVars, asked>>

(***************************************************************************)
(* The files given to validateCSV.                                         *)
(***************************************************************************)
NewLine == <<"\n">>

HdrIdPrice    == <<"i", "d", ",", "p", "r", "i", "c", "e">>
HdrNameActive == <<"n", "a", "m", "e", ",", "a", "c", "t", "i", "v", "e">>
HdrIdId       == <<"i", "d", ",", "i", "d">>
HdrSignup     == <<"n", "a", "m", "e", ",", "e", "m", "a", "i", "l", ",", "s", "i", "g", "n", "u", "p", "_", "d", "a", "t", "e">>

BlankLine == <<" ">>

LinesIdPrice ==
  {<<"1", ",", "9", ".", "9", "9">>,
   <<"1", ",", " ", "9", ".", "9", "9", "0", " ">>,
   <<"\"", "1", "\"", ",", "9", ".", "9", "9">>,
   <<"2", ",", "9", ".", "9", "9">>,
   <<"1", ",", "x">>,
   <<"1", ",">>,
   <<"1", ",", "I", "n", "f", "i", "n", "i", "t", "y">>,
   <<"1">>}

LinesNameActive ==
  {<<"A", "n", "n">>,
   <<"A", "n", "n", ",", "Y", "e", "s">>,
   <<" ", "A", "n", "n", " ", ",", "t", "r", "u", "e">>,
   <<"A", "n", "n", ",", "m", "a", "y", "b", "e">>,
   <<"A", "n", "n", ",", "o", "f", "f">>,
   <<"A", "n", "n", ",", "0">>}

LinesIdId ==
  {<<"1", ",", "2">>,
   <<"3", ",", "2">>,
   <<",", "2">>,
   <<"1">>}

LinesSignup ==
  {<<"A", "n", "n">>,
   <<"A", "n", "n", ",", "n", "o", "t", "-", "a", "n", "-", "e", "m", "a", "i", "l", ",", "2", "0", "2", "4", "-", "1", "3", "-", "4", "0">>,
   <<"A", "n", "n", ",", "a", "@", "b", ".", "c", ",", "2", "0", "2", "4", "-", "0", "1", "-", "1", "5">>,
   <<"A", "n", "n", ",", "a", "@", "b", ".", "c", ",", " ", "2", "0", "2", "4", "-", "0", "1", "-", "1", "5">>}

\* column names, alone and in pairs, for headers without data lines
NameFragments ==
  {<<"e", "m", "a", "i", "l">>,
   <<"E", "M", "A", "I", "L">>,
   <<"E", "-", "m", "a", "i", "l">>,
   <<"D", "a", "t", "e">>,
   <<"t", "i", "m", "e">>,
   <<"p", "r", "i", "c", "e">>,
   <<"A", "m", "o", "u", "n", "t">>,
   <<"C", "O", "S", "T">>,
   <<"a", "c", "t", "i", "v", "e">>,
   <<"E", "n", "a", "b", "l", "e", "d">>,
   <<"i", "d">>,
   <<"_">>,
   <<"e", "m">>,
   <<"a", "i", "l">>}

NameEmailDate == <<"e", "m", "a", "i", "l", "_", "d", "a", "t", "e">>

ColumnNames ==
  NameFragments \cup {a \o b : a \in NameFragments, b \in NameFragments} \cup {NameEmailDate}

SeqsUpTo(S, n) == UNION {[1..k -> S] : k \in 0..n}

FilesOf(header, dataLines) ==
  {join(<<header>> \o body, NewLine) : body \in SeqsUpTo(dataLines \cup {BlankLine}, MaxLines)}

EmptyFiles ==
  {<<>>,
   <<" ">>,
   <<"\n">>,
   <<" ", "\n", "\t">>,
   <<"\r", "\n">>}

OtherFiles ==
  {<<"i", "d", ",", "p", "r", "i", "c", "e", "\r", "\n", "1", ",", "9", ".", "9", "9", "\r", "\n", "1", ",", "9", ".", "9", "9", "\r", "\n">>,
   <<"\n", " ", "\n", "i", "d", ",", "p", "r", "i", "c", "e", "\n", "\n", "1", ",", "9", ".", "9", "9", "\n">>,
   <<"\"", "i", "d", "\"", ",", " ", "\"", "p", "r", "i", "c", "e", "\"", " ", "\n", "1", ",", "9", ".", "9", "9">>}

\* texts of a cell of a boolean column
BooleanTexts ==
  {<<"t", "r", "u", "e">>,
   <<"T", "R", "U", "E">>,
   <<"T", "r", "u", "e">>,
   <<"1">>,
   <<"y", "e", "s">>,
   <<"Y", "e", "s">>,
   <<"o", "n">>,
   <<"O", "N">>,
   <<"f", "a", "l", "s", "e">>,
   <<"F", "A", "L", "S", "E">>,
   <<"0">>,
   <<"n", "o">>,
   <<"N", "o">>,
   <<"o", "f", "f">>,
   <<"O", "F", "F">>,
   <<"m", "a", "y", "b", "e">>,
   <<"2">>,
   <<"t">>,
   <<"t", "r", "u", "e", "e">>,
   <<"1", "0">>,
   <<"y">>,
   <<"t", "r", "u">>,
   <<"o", "n", "n">>,
   <<"n", "O">>}

\* texts of a cell of a number column
NumberTexts ==
  {<<"9", ".", "9", "9">>,
   <<"9", ".", "9", "9", "x">>,
   <<"1", "2", "a", "b", "c">>,
   <<"1", "e", "5">>,
   <<"1", "e">>,
   <<".", "5">>,
   <<"5", ".">>,
   <<"-", "3">>,
   <<"+", "4">>,
   <<"a", "b", "c">>,
   <<"x", "1">>,
   <<"1", ".", "2", ".", "3">>,
   <<"I", "n", "f", "i", "n", "i", "t", "y">>,
   <<"-", "I", "n", "f", "i", "n", "i", "t", "y">>,
   <<"I", "n", "f", "i", "n", "i", "t", "y", "x">>,
   <<"1", "e", "4", "0", "0">>,
   <<"0", "x", "1", "0">>,
   <<"1", " ", "2">>,
   <<"-", "-", "1">>,
   <<".">>,
   <<"N", "a", "N">>,
   <<"-">>,
   <<"1", "e", "-", "4", "0", "0">>,
   <<"-", "0">>,
   <<"1", "E", "+", "2">>,
   <<"e", "5">>}

HdrActive == <<"a", "c", "t", "i", "v", "e">>
HdrPrice == <<"p", "r", "i", "c", "e">>

\* the files of one column and one data line
OneCellFiles(header, texts) == {header \o NewLine \o text : text \in texts}

\* files with double quotes around and inside fields
QuotedFiles ==
  {<<"n", "a", "m", "e", "\n", "a", "\"", "b">>,
   <<"n", "a", "m", "e", "\n", "\"", "a", "b", "\"">>,
   <<"n", "a", "m", "e", "\n", " ", "\"", "a", "\"", "b", "\"", " ", ",", "x">>,
   <<"\"", "n", "a", "\"", "m", "e", "\"", ",", "i", "d", "\n", "x", ",", "\"", "1", "\"">>}

Files ==
  FilesOf(HdrIdPrice, LinesIdPrice) \cup FilesOf(HdrNameActive, LinesNameActive)
    \cup FilesOf(HdrIdId, LinesIdId) \cup FilesOf(HdrSignup, LinesSignup)
    \cup ColumnNames \cup EmptyFiles \cup OtherFiles
    \cup OneCellFiles(HdrActive, BooleanTexts) \cup OneCellFiles(HdrPrice, NumberTexts)
    \cup QuotedFiles

\* the files of the runs in which several calls are in flight
FewFiles ==
  {<<"i", "d", ",", "p", "r", "i", "c", "e", "\n", "1", ",", "9", ".", "9", "9", "\n", "1", ",", " ", "9", ".", "9", "9", "0", " ">>,
   <<"i", "d", ",", "p", "r", "i", "c", "e", "\n", "1", ",", "9", ".", "9", "9">>,
   <<"i", "d", ",", "p", "r", "i", "c", "e", "\n", "1", ",", "x", "\n", " ", "\n", "1", ",", "x">>,
   <<"i", "d", ",", "p", "r", "i", "c", "e">>,
   <<" ", "\n">>}

\* the files the user drops: name, type and text
FileA == [name |-> <<"a", ".", "c", "s", "v">>, type |-> "text/csv",
          text |-> <<"i", "d", ",", "p", "r", "i", "c", "e", "\n", "1", ",", "9", "\n", "1", ",", "9", "\n", "2", ",", "x">>]
FileEmpty == [name |-> <<"e", "m", "p", "t", "y", ".", "c", "s", "v">>, type |-> "text/csv", text |-> <<" ", "\n">>]
FileNotes == [name |-> <<"n", "o", "t", "e", "s", ".", "t", "x", "t">>, type |-> "text/plain", text |-> <<"x">>]

FileTwice == [name |-> <<"t", ".", "c", "s", "v">>, type |-> "text/csv",
              text |-> <<"i", "d", ",", "i", "d", "\n", "1", ",", "2">>]

UploadFiles == {FileA, FileEmpty, FileNotes}

Drops == UNION {[1..n -> UploadFiles] : n \in 1..MaxFiles}

\* the requests of the records table
Queries == {<<>>, <<" ">>, <<"9">>, <<"X">>}

Requests ==
  {<<"getUploads", <<>>>>}
    \cup {<<"getUploadData", <<uploadId, page, limit>>>> :
            uploadId \in 1..NumSlots, page \in 1..(MaxLimit + 1), limit \in 1..MaxLimit}
    \cup {<<"searchData", <<query, uploadId>>>> :
            query \in Queries, uploadId \in {<<>>, <<1>>}}

(***************************************************************************)
(* Spec: one call of validateCSV on any of Files.                          *)
(* SpecInterleaved: a call per slot on FewFiles, their steps interleaved.  *)
(***************************************************************************)
Next ==
  \/ \E csv \in Files : validateCSV(1, csv) /\ UNCHANGED appVars
  \/ onerror(1) /\ UNCHANGED appVars
  \/ onload(1) /\ UNCHANGED appVars
  \/ validateNextRow(1) /\ UNCHANGED appVars
  \/ resolveValidation(1) /\ UNCHANGED appVars

Spec == Init /\ [][Next]_vars

NextInterleaved ==
  \E s \in Slots :
    \/ \E csv \in FewFiles : validateCSV(s, csv) /\ UNCHANGED appVars
    \/ onerror(s) /\ UNCHANGED appVars
    \/ onload(s) /\ UNCHANGED appVars
    \/ validateNextRow(s) /\ UNCHANGED appVars
    \/ resolveValidation(s) /\ UNCHANGED appVars

SpecInterleaved == Init /\ [][NextInterleaved]_vars

\* SpecUpload: the application from its start: drops, runs of processFiles with
\* their calls of validateCSV, and the effects of the Index page, with every answer
\* of the database either way
NextUpload ==
  \/ \E ok \in BOOLEAN : startup(ok)
  \/ \E ok \in BOOLEAN : deleteAllAPILogs(ok)
  \/ \E acceptedFiles \in Drops : onDrop(acceptedFiles)
  \/ \E index \in 0..(MaxFiles - 1) : removeFile(index)
  \/ processFiles
  \/ \E s \in Slots : onerror(s) /\ UNCHANGED appVars
  \/ \E s \in Slots : onload(s) /\ UNCHANGED appVars
  \/ \E s \in Slots : validateNextRow(s) /\ UNCHANGED appVars
  \/ \E s \in Slots : resolveValidation(s) /\ UNCHANGED appVars
  \/ validated
  \/ \E ok \in BOOLEAN : uploadInserted(ok)
  \/ \E ok \in BOOLEAN : rowsInserted(ok)
  \/ \E ok \in BOOLEAN : storeUploadLogRequest(ok)
  \/ \E s \in Slots : \E ok \in BOOLEAN : handlerGetUploads(s, ok)
  \/ \E s \in Slots : \E ok \in BOOLEAN : handlerLogRequest(s, ok)

SpecUpload == Init /\ [][NextUpload]_vars

\* The running call of processFiles is not left waiting forever: the browser delivers
\* the event of the FileReader and runs the row loop to its end, and the database
\* answers every insert.
\* Weak fairness of the steps of validateCSV in slot s, written out: such a step is
\* enabled exactly while pc[s] is "reading" or "rows", and it changes pc[s] or i[s].
ValidationFair(s) ==
  \/ []<>(pc[s] \notin {"reading", "rows"})
  \/ []<><<pc'[s] # pc[s] \/ i'[s] # i[s]>>_vars

\* the steps in which a promise awaited by processFiles or by storeUpload settles
AwaitStep ==
  \/ validated
  \/ \E ok \in BOOLEAN : uploadInserted(ok)
  \/ \E ok \in BOOLEAN : rowsInserted(ok)
  \/ \E ok \in BOOLEAN : storeUploadLogRequest(ok)

\* the batches of t.csv and empty.csv; the inserts of storeUpload and of its log entry
\* and the deletes are answered either way, the fetches of the page without error
BatchDrops == UNION {[1..n -> {FileTwice, FileEmpty}] : n \in 1..MaxFiles}

NextBatch ==
  \/ \E ok \in BOOLEAN : startup(ok)
  \/ \E ok \in BOOLEAN : deleteAllAPILogs(ok)
  \/ \E acceptedFiles \in BatchDrops : onDrop(acceptedFiles)
  \/ processFiles
  \/ \E s \in Slots : onerror(s) /\ UNCHANGED appVars
  \/ \E s \in Slots : onload(s) /\ UNCHANGED appVars
  \/ \E s \in Slots : validateNextRow(s) /\ UNCHANGED appVars
  \/ \E s \in Slots : resolveValidation(s) /\ UNCHANGED appVars
  \/ validated
  \/ \E ok \in BOOLEAN : uploadInserted(ok)
  \/ \E ok \in BOOLEAN : rowsInserted(ok)
  \/ \E ok \in BOOLEAN : storeUploadLogRequest(ok)
  \/ \E s \in Slots : handlerGetUploads(s, TRUE)
  \/ \E s \in Slots : handlerLogRequest(s, TRUE)

SpecBatchFair ==
  /\ Init /\ [][NextBatch]_vars
  /\ WF_vars(AwaitStep)
  /\ \A s \in Slots : ValidationFair(s)

(***************************************************************************)
(* The records table: the user uploads a.csv, once or several times; the   *)
(* database accepts every insert, and answers or refuses the deletes and   *)
(* the requests of the table.                                              *)
(***************************************************************************)
RecordsDrops == {<<FileA>>}

NextRecords ==
  \/ \E ok \in BOOLEAN : startup(ok)
  \/ \E ok \in BOOLEAN : deleteAllAPILogs(ok)
  \/ \E acceptedFiles \in RecordsDrops : onDrop(acceptedFiles)
  \/ processFiles
  \/ \E s \in Slots : onerror(s) /\ UNCHANGED appVars
  \/ \E s \in Slots : onload(s) /\ UNCHANGED appVars
  \/ \E s \in Slots : validateNextRow(s) /\ UNCHANGED appVars
  \/ \E s \in Slots : resolveValidation(s) /\ UNCHANGED appVars
  \/ validated
  \/ uploadInserted(TRUE)
  \/ rowsInserted(TRUE)
  \/ storeUploadLogRequest(TRUE)
  \/ \E s \in Slots : handlerGetUploads(s, TRUE)
  \/ \E s \in Slots : handlerLogRequest(s, TRUE)
  \/ \E r \in Requests : request(r[1], r[2])
  \/ \E ok \in BOOLEAN : requestAnswered(ok)
  \/ requestLogRequest(TRUE)

SpecRecords == Init /\ [][NextRecords]_vars

TypeOK ==
  /\ pc \in [Slots -> {"idle", "reading", "rows", "resolved", "rejected"}]
  /\ \A s \in Slots : Len(validator[s]) <= 1 /\ Len(settled[s]) <= 1

(***************************************************************************)
(* Vocabulary of the properties.                                           *)
(***************************************************************************)
\* a line with a character that is not white space
NonBlank(line) == \E p \in 1..Len(line) : ~IsWhitespace(line[p])

\* the lines of a file that are not blank, in file order
NonBlankLines(csv) == SelectSeq(split(csv, "\n"), NonBlank)

\* the call of slot s has resolved; Outcome(s) is what it resolved with
Resolved(s) == pc[s] = "resolved"
Outcome(s) == settled[s][1].value

\* x === y on cell values: -0 and 0 are the same number
StrictEquals(x, y) ==
  /\ x.t = y.t
  /\ IF x.t = "number"
       THEN /\ x.v.k = y.v.k
            /\ x.v.m = y.v.m
            /\ x.v.e = y.v.e
            /\ (x.v.m # 0 \/ x.v.k = "inf" => x.v.neg = y.v.neg)
       ELSE x.v = y.v

\* the same coerced value in every column
SameCoercedData(d1, d2) ==
  /\ Len(d1) = Len(d2)
  /\ \A p \in 1..Len(d1) : d1[p].key = d2[p].key /\ StrictEquals(d1[p].value, d2[p].value)

\* the data line behind row k of slot s, its fields and its row mapping
DataLine(s, k) == NonBlankLines(file[s])[k + 1]
RowDataOf(s, k) == zipRow(headers[s], parseFields(DataLine(s, k)), 1, <<>>)

(***************************************************************************)
(* C1: in every summary validRows + duplicateRows + errorRows = totalRows; *)
(* each row is in exactly one of the three classes, and a duplicate row is *)
(* not counted as an error row, whether or not its cells are valid.        *)
(***************************************************************************)
C1_SummaryPartition ==
  \A s \in Slots : Resolved(s) =>
    LET sm == Outcome(s).summary
        rs == Outcome(s).results
    IN  /\ sm.validRows + sm.duplicateRows + sm.errorRows = sm.totalRows
        /\ sm.totalRows = Len(rs)
        /\ sm.validRows = Cardinality({k \in 1..Len(rs) : rs[k].isValid})
        /\ sm.duplicateRows = Cardinality({k \in 1..Len(rs) : rs[k].isDuplicate})
        /\ sm.errorRows =
             Cardinality({k \in 1..Len(rs) : ~rs[k].isValid /\ ~rs[k].isDuplicate})
        /\ \A k \in 1..Len(rs) : ~(rs[k].isValid /\ rs[k].isDuplicate)

\* a summary with a valid row, an error row and a duplicate row whose cells fail
C1_Witness ==
  \E s \in Slots :
    /\ Resolved(s)
    /\ Outcome(s).summary.validRows > 0
    /\ Outcome(s).summary.errorRows > 0
    /\ \E k \in 1..Len(Outcome(s).results) :
         Outcome(s).results[k].isDuplicate /\ Outcome(s).results[k].errors # <<>>

(***************************************************************************)
(* C2: a row is reported as a duplicate exactly when an earlier row of the *)
(* same file has the same coerced value in every column.                   *)
(***************************************************************************)
C2_DuplicateIffSameCoercedData ==
  \A s \in Slots : \A k \in 1..Len(results[s]) :
    results[s][k].isDuplicate <=>
      \E j \in 1..(k - 1) : SameCoercedData(results[s][j].data, results[s][k].data)

(***************************************************************************)
(* C3: a row is valid exactly when it has no cell errors and is not a      *)
(* duplicate.  A duplicate row with cell errors keeps them and is counted  *)
(* in duplicateRows, not in errorRows.  Of two identical rows the first is *)
(* valid and not a duplicate, the second a duplicate and not valid, and    *)
(* the summary has duplicateRows = 1 and errorRows = 0.                    *)
(***************************************************************************)
TwoIdenticalRows == <<"i", "d", ",", "p", "r", "i", "c", "e", "\n", "1", ",", "9", ".", "9", "9", "\n", "1", ",", "9", ".", "9", "9">>

C3_ValidIffNoErrorsAndNotDuplicate ==
  \A s \in Slots :
    /\ \A k \in 1..Len(results[s]) :
         results[s][k].isValid <=>
           (results[s][k].errors = <<>> /\ ~results[s][k].isDuplicate)
    /\ Resolved(s) =>
         LET sm == Outcome(s).summary
             rs == Outcome(s).results
         IN  /\ sm.duplicateRows = Cardinality({k \in 1..Len(rs) : rs[k].isDuplicate})
             /\ sm.errorRows =
                  Cardinality({k \in 1..Len(rs) : rs[k].errors # <<>> /\ ~rs[k].isDuplicate})
             /\ file[s] = TwoIdenticalRows =>
                  /\ Len(rs) = 2
                  /\ rs[1].isValid /\ ~rs[1].isDuplicate
                  /\ rs[2].isDuplicate /\ ~rs[2].isValid
                  /\ sm.duplicateRows = 1 /\ sm.errorRows = 0

\* a resolved run with a duplicate row that has no cell error, and one that has
C3_Witness ==
  \E s \in Slots :
    /\ Resolved(s)
    /\ \E k \in 1..Len(results[s]) : results[s][k].isDuplicate /\ results[s][k].errors = <<>>
    /\ \E k \in 1..Len(results[s]) : results[s][k].isDuplicate /\ results[s][k].errors # <<>>

(***************************************************************************)
(* C4: a cell whose raw value is empty, only white space, or absent from   *)
(* the row (a trailing column of a line with fewer fields than the header) *)
(* is invalid with the one error "Missing value" and the coerced value     *)
(* null, whatever the type of its column.                                  *)
(***************************************************************************)
MissingResult(type) ==
  [isValid |-> FALSE, errors |-> << <<"Missing value">> >>,
   cleanedValue |-> NullValue, type |-> type]

\* column c of row k of slot s has no raw value
NoRawValue(s, k, c) ==
  \/ c > Len(parseFields(DataLine(s, k)))
  \/ ~NonBlank(GetProp(RowDataOf(s, k), headers[s][c]))

C4_MissingValue ==
  \A s \in Slots : \A k \in 1..Len(results[s]) : \A c \in 1..Len(headers[s]) :
    NoRawValue(s, k, c) =>
      LET col == headers[s][c]
          raw == GetProp(RowDataOf(s, k), col)
      IN  /\ \A type \in ColumnTypeNames : validateValue(raw, type) = MissingResult(type)
          /\ GetProp(results[s][k].data, col) = NullValue
          /\ \E e \in 1..Len(results[s][k].errors) :
               results[s][k].errors[e] = col \o <<": ", "Missing value">>
          /\ ~results[s][k].isValid

\* a row whose line is shorter than the header, and a row with a blank field,
\* in a column that is not a string column
C4_Witness ==
  \E s \in Slots : \E k \in 1..Len(results[s]) : \E c \in 1..Len(headers[s]) :
    /\ NoRawValue(s, k, c)
    /\ c > Len(parseFields(DataLine(s, k)))
    /\ GetProp(validator[s][1].columnTypes, headers[s][c]) \in {"number", "boolean", "date"}

(***************************************************************************)
(* C5: every column gets exactly one of the five types, by the first       *)
(* keyword group its name contains, letter case ignored: email, then date  *)
(* or time, then price, amount or cost, then active or enabled, else       *)
(* string.  "email_date" is email; a name has one type however often it    *)
(* occurs.                                                                 *)
(***************************************************************************)
\* the name contains the keyword, letter case ignored
SameLetter(c, d) ==
  \/ c = d
  \/ \E j \in 1..26 : {c, d} = {UpperChars[j], LowerChars[j]}

Contains(name, kw) ==
  \E p \in 0..(Len(name) - Len(kw)) : \A q \in 1..Len(kw) : SameLetter(name[p + q], kw[q])

ExpectedType(name) ==
  CASE Contains(name, KwEmail) -> "email"
    [] ~Contains(name, KwEmail)
       /\ (Contains(name, KwDate) \/ Contains(name, KwTime)) -> "date"
    [] ~Contains(name, KwEmail) /\ ~Contains(name, KwDate) /\ ~Contains(name, KwTime)
       /\ (Contains(name, KwPrice) \/ Contains(name, KwAmount) \/ Contains(name, KwCost))
         -> "number"
    [] ~Contains(name, KwEmail) /\ ~Contains(name, KwDate) /\ ~Contains(name, KwTime)
       /\ ~Contains(name, KwPrice) /\ ~Contains(name, KwAmount) /\ ~Contains(name, KwCost)
       /\ (Contains(name, KwActive) \/ Contains(name, KwEnabled)) -> "boolean"
    [] OTHER -> "string"

C5_ColumnTypeInference ==
  \A s \in Slots : validator[s] # <<>> =>
    LET v == validator[s][1]
    IN  /\ \A c \in 1..Len(v.columns) :
             /\ HasKey(v.columnTypes, v.columns[c])
             /\ GetProp(v.columnTypes, v.columns[c]) \in ColumnTypeNames
             /\ GetProp(v.columnTypes, v.columns[c]) = ExpectedType(v.columns[c])
             /\ v.columns[c] = NameEmailDate => GetProp(v.columnTypes, v.columns[c]) = "email"
        /\ \A p, q \in 1..Len(v.columnTypes) :
             v.columnTypes[p].key = v.columnTypes[q].key => p = q
        /\ \A t \in Slots : validator[t] # <<>> =>
             \A c \in 1..Len(v.columns) : \A d \in 1..Len(validator[t][1].columns) :
               v.columns[c] = validator[t][1].columns[d] =>
                 GetProp(v.columnTypes, v.columns[c])
                   = GetProp(validator[t][1].columnTypes, validator[t][1].columns[d])

\* a validator for a column whose name has the keywords of two groups, not in lower case
C5_Witness ==
  \E s \in Slots : validator[s] # <<>> /\ \E c \in 1..Len(validator[s][1].columns) :
    LET name == validator[s][1].columns[c]
    IN  /\ Contains(name, KwEmail) /\ Contains(name, KwDate)
        /\ name # toLowerCase(name)
        /\ GetProp(validator[s][1].columnTypes, name) = "email"

(***************************************************************************)
(* C6: duplicates are found on coerced values: a row whose cells coerce to *)
(* the values of an earlier row of the file, in every column, is reported  *)
(* as a duplicate although its raw text differs.                           *)
(***************************************************************************)
C6_DuplicateOnCoercedValues ==
  \A s \in Slots : \A k \in 1..Len(results[s]) : \A j \in 1..(k - 1) :
    SameCoercedData(results[s][j].data, results[s][k].data) => results[s][k].isDuplicate

\* two rows with different raw text in the number or boolean column and the
\* same coerced data, the second reported as a duplicate
C6_Witness ==
  \E s \in Slots : \E k \in 1..Len(results[s]) : \E j \in 1..(k - 1) :
    /\ SameCoercedData(results[s][j].data, results[s][k].data)
    /\ results[s][k].isDuplicate
    /\ \E c \in 1..Len(headers[s]) :
         /\ GetProp(validator[s][1].columnTypes, headers[s][c]) \in {"number", "boolean"}
         /\ trim(GetProp(RowDataOf(s, j), headers[s][c]))
              # trim(GetProp(RowDataOf(s, k), headers[s][c]))

(***************************************************************************)
(* C7: no validation state passes from one file to another.  Every call    *)
(* starts from a validator with an empty seen-row set; a row is reported   *)
(* as a duplicate only when an earlier row of its own file has its         *)
(* serialization; two calls on the same content that both read their file  *)
(* settle with the same results and summary, however their steps           *)
(* interleave.                                                             *)
(***************************************************************************)
ReadFailed(s) == pc[s] = "rejected" /\ settled[s][1].error = <<"Failed to read file">>
Settled(s) == pc[s] \in {"resolved", "rejected"}

C7_NoStateAcrossFiles ==
  \A s \in Slots :
    /\ validator[s] # <<>> =>
         validator[s][1].seenRows
           = {JSONStringify(results[s][k].data) : k \in 1..Len(results[s])}
    /\ \A k \in 1..Len(results[s]) :
         results[s][k].isDuplicate =>
           \E j \in 1..(k - 1) :
             JSONStringify(results[s][j].data) = JSONStringify(results[s][k].data)
    /\ \A t \in Slots :
         (Settled(s) /\ Settled(t) /\ ~ReadFailed(s) /\ ~ReadFailed(t) /\ file[s] = file[t])
           => settled[s] = settled[t]

\* two calls on the same content, both resolved, with a duplicate row inside
\* the file and a first row that the other call had seen before
C7_Witness ==
  \E s, t \in Slots :
    /\ s # t
    /\ Resolved(s) /\ Resolved(t)
    /\ file[s] = file[t]
    /\ Len(results[t]) >= 2
    /\ ~results[t][1].isDuplicate
    /\ results[t][2].isDuplicate

(***************************************************************************)
(* C8: row numbers count the lines that are left when the blank lines are  *)
(* dropped: the k-th data line that is not blank is row k, so the row      *)
(* numbers of the results are 1..totalRows in order, wherever the blank    *)
(* lines of the file are.                                                  *)
(***************************************************************************)
C8_RowNumbersOverRetainedLines ==
  \A s \in Slots :
    /\ \A k \in 1..Len(results[s]) :
         /\ results[s][k].rowNumber = k
         /\ k + 1 <= Len(NonBlankLines(file[s]))
         /\ results[s][k].data =
              validateColumns(validator[s][1], RowDataOf(s, k), 1,
                [cleanedData |-> <<>>, errors |-> <<>>, isValid |-> TRUE]).cleanedData
    /\ Resolved(s) =>
         /\ Outcome(s).results = results[s]
         /\ Outcome(s).summary.totalRows = Len(results[s])
         /\ Len(results[s]) = Len(NonBlankLines(file[s])) - 1

\* a resolved run of a file with a blank line between its data lines
C8_Witness ==
  \E s \in Slots :
    /\ Resolved(s)
    /\ Len(results[s]) >= 2
    /\ LET all == split(file[s], "\n")
       IN  \E a, b, c \in 1..Len(all) :
             a < b /\ b < c /\ NonBlank(all[a]) /\ ~NonBlank(all[b]) /\ NonBlank(all[c])
                /\ \E h \in 1..(a - 1) : NonBlank(all[h])

(***************************************************************************)
(* C9: a file without a line that is not blank is rejected, once, before   *)
(* any validator is built or row validated, and nothing is resolved.       *)
(***************************************************************************)
C9_EmptyFileRejected ==
  \A s \in Slots :
    (pc[s] \notin {"idle", "reading"} /\ Len(NonBlankLines(file[s])) = 0) =>
      /\ pc[s] = "rejected"
      /\ Len(settled[s]) = 1
      /\ settled[s][1].kind = "reject"
      /\ settled[s][1].error \in {<<"Empty CSV file">>, <<"Failed to read file">>}
      /\ settled[s][1].value = <<>>
      /\ validator[s] = <<>>
      /\ headers[s] = <<>>
      /\ results[s] = <<>>

\* a file of white space only, read and rejected as empty
C9_Witness ==
  \E s \in Slots :
    /\ pc[s] = "rejected"
    /\ settled[s] = <<Reject(<<"Empty CSV file">>)>>
    /\ Len(file[s]) >= 2
    /\ Len(NonBlankLines(file[s])) = 0

(***************************************************************************)
(* C10: a file with a line that is not blank, once read, resolves whatever *)
(* its cells hold: cell errors and duplicates are recorded in the results  *)
(* and nothing is rejected; the results hold one row per data line that is *)
(* not blank, and a file of a header alone gives no row and counts of 0.   *)
(***************************************************************************)
C10_ImperfectFileResolves ==
  \A s \in Slots : Len(NonBlankLines(file[s])) >= 1 =>
    /\ pc[s] = "rejected" => settled[s] = <<Reject(<<"Failed to read file">>)>>
    /\ pc[s] = "rows" => settled[s] = <<>> /\ Len(results[s]) <= Len(NonBlankLines(file[s])) - 1
    /\ Resolved(s) =>
         /\ Len(settled[s]) = 1
         /\ settled[s][1].kind = "resolve"
         /\ Len(Outcome(s).results) = Len(NonBlankLines(file[s])) - 1
         /\ Outcome(s).summary.totalRows = Len(NonBlankLines(file[s])) - 1
         /\ Len(NonBlankLines(file[s])) = 1 =>
              /\ Outcome(s).results = <<>>
              /\ Outcome(s).summary.validRows = 0
              /\ Outcome(s).summary.duplicateRows = 0
              /\ Outcome(s).summary.errorRows = 0
              /\ Outcome(s).summary.validationErrors = <<>>

\* a resolved run in which every row has a cell error or is a duplicate
C10_Witness ==
  \E s \in Slots :
    /\ Resolved(s)
    /\ Len(results[s]) >= 2
    /\ Outcome(s).summary.validRows = 0
    /\ Outcome(s).summary.duplicateRows > 0
    /\ Outcome(s).summary.errorRows > 0

\* the text of column c in row k of slot s as validateValue cleans it, and the column's type
CellText(s, k, c) == trim(GetProp(RowDataOf(s, k), headers[s][c]))
ColumnType(s, c) == GetProp(validator[s][1].columnTypes, headers[s][c])

(***************************************************************************)
(* C11: the errors list of a row has exactly one entry                     *)
(* "<column>: <messages>" for each column whose value is invalid, none for *)
(* a valid column, in header order.  The row Ann,not-an-email,2024-13-40   *)
(* under name,email,signup_date gets "email: Invalid email format" and     *)
(* "signup_date: Invalid date format", is not a duplicate and not valid.   *)
(***************************************************************************)
CellInvalid(s, k, c) ==
  ~validateValue(GetProp(RowDataOf(s, k), headers[s][c]), ColumnType(s, c)).isValid

\* the invalid columns of row k, in header order
InvalidColumns(s, k) ==
  SelectSeq([c \in 1..Len(headers[s]) |-> c], LAMBDA c : CellInvalid(s, k, c))

C11_ScenarioFile ==
  HdrSignup \o NewLine
    \o <<"A", "n", "n", ",", "n", "o", "t", "-", "a", "n", "-", "e", "m", "a", "i", "l", ",",
         "2", "0", "2", "4", "-", "1", "3", "-", "4", "0">>

C11_ScenarioErrors ==
  << <<"e", "m", "a", "i", "l", ": ", "Invalid email format">>,
     <<"s", "i", "g", "n", "u", "p", "_", "d", "a", "t", "e", ": ", "Invalid date format">> >>

C11_OneEntryPerInvalidColumn ==
  \A s \in Slots :
    /\ \A k \in 1..Len(results[s]) :
         LET inv  == InvalidColumns(s, k)
             errs == results[s][k].errors
         IN  /\ Len(errs) = Len(inv)
             /\ \A e \in 1..Len(inv) :
                  errs[e] = headers[s][inv[e]] \o <<": ">>
                    \o join(validateValue(GetProp(RowDataOf(s, k), headers[s][inv[e]]),
                                          ColumnType(s, inv[e])).errors, <<", ">>)
    /\ file[s] = C11_ScenarioFile /\ Len(results[s]) >= 1 =>
         /\ results[s][1].errors = C11_ScenarioErrors
         /\ ~results[s][1].isDuplicate
         /\ ~results[s][1].isValid

\* the scenario's row has been validated
C11_Witness ==
  \E s \in Slots : file[s] = C11_ScenarioFile /\ Len(results[s]) = 1

(***************************************************************************)
(* C12: in a boolean column a value that is not missing and reads, letter  *)
(* case ignored, true, 1, yes or on becomes true; false, 0, no or off      *)
(* becomes false; any other is invalid with "Invalid boolean value".       *)
(***************************************************************************)
EqualsIgnoringCase(a, b) ==
  Len(a) = Len(b) /\ \A p \in 1..Len(a) : SameLetter(a[p], b[p])

C12_TrueTexts  == {<<"t", "r", "u", "e">>, <<"1">>, <<"y", "e", "s">>, <<"o", "n">>}
C12_FalseTexts == {<<"f", "a", "l", "s", "e">>, <<"0">>, <<"n", "o">>, <<"o", "f", "f">>}

HasEntry(r, col, msg) ==
  \E e \in 1..Len(r.errors) : r.errors[e] = col \o <<": ", msg>>

C12_BooleanColumn ==
  \A s \in Slots : \A k \in 1..Len(results[s]) : \A c \in 1..Len(headers[s]) :
    ColumnType(s, c) = "boolean" /\ CellText(s, k, c) # <<>> =>
      LET col  == headers[s][c]
          text == CellText(s, k, c)
          r    == results[s][k]
      IN  IF \E w \in C12_TrueTexts : EqualsIgnoringCase(text, w)
            THEN /\ GetProp(r.data, col) = BooleanValue(TRUE)
                 /\ ~HasEntry(r, col, "Invalid boolean value")
          ELSE IF \E w \in C12_FalseTexts : EqualsIgnoringCase(text, w)
            THEN /\ GetProp(r.data, col) = BooleanValue(FALSE)
                 /\ ~HasEntry(r, col, "Invalid boolean value")
          ELSE /\ HasEntry(r, col, "Invalid boolean value")
               /\ ~r.isValid

\* a boolean cell "ON", in upper case, coerced to true
C12_Witness ==
  \E s \in Slots : \E k \in 1..Len(results[s]) : \E c \in 1..Len(headers[s]) :
    /\ ColumnType(s, c) = "boolean"
    /\ CellText(s, k, c) = <<"O", "N">>
    /\ GetProp(results[s][k].data, headers[s][c]) = BooleanValue(TRUE)

(***************************************************************************)
(* C13: in a number column a value that is not missing is valid exactly    *)
(* when it is a number; a value that is not a number, one with other       *)
(* characters after a numeric prefix included, is invalid with "Invalid    *)
(* number format".                                                         *)
(***************************************************************************)
\* the length of the mantissa at position p: digits with at most one point, or 0
MantissaLen(s, p) ==
  LET il     == DigitRun(s, p)
      hasDot == p + il <= Len(s) /\ s[p + il] = "."
      fl     == IF hasDot THEN DigitRun(s, p + il + 1) ELSE 0
  IN  IF il + fl = 0 THEN 0 ELSE il + (IF hasDot THEN 1 + fl ELSE 0)

\* the length of the exponent at position p: e or E, a sign or none, digits; or 0
ExponentLen(s, p) ==
  IF p <= Len(s) /\ s[p] \in {"e", "E"}
    THEN LET q == IF p + 1 <= Len(s) /\ s[p + 1] \in {"+", "-"} THEN p + 2 ELSE p + 1
             d == DigitRun(s, q)
         IN  IF d = 0 THEN 0 ELSE q + d - p
    ELSE 0

IsUnsignedNumberText(s, p) ==
  \/ SubSeq(s, p, Len(s)) = InfinityText
  \/ LET m == MantissaLen(s, p)
     IN  /\ m > 0
         /\ \/ p + m = Len(s) + 1
            \/ /\ ExponentLen(s, p + m) > 0
               /\ p + m + ExponentLen(s, p + m) = Len(s) + 1

\* the whole text is a number
IsNumberText(s) ==
  s # <<>> /\ IsUnsignedNumberText(s, IF s[1] \in {"+", "-"} THEN 2 ELSE 1)

C13_NumberColumn ==
  \A s \in Slots : \A k \in 1..Len(results[s]) : \A c \in 1..Len(headers[s]) :
    ColumnType(s, c) = "number" /\ CellText(s, k, c) # <<>> =>
      LET col == headers[s][c]
          r   == results[s][k]
      IN  IF IsNumberText(CellText(s, k, c))
            THEN /\ GetProp(r.data, col).t = "number"
                 /\ ~HasEntry(r, col, "Invalid number format")
            ELSE /\ HasEntry(r, col, "Invalid number format")
                 /\ ~r.isValid

(***************************************************************************)
(* C20: the seen-row set of a validator is the set of the serialisations   *)
(* of the rows it returned as not duplicate, so its size is the number of  *)
(* rows less the number of duplicates; a call adds the row's serialisation *)
(* when it is absent and adds nothing when it is present; the set never    *)
(* shrinks.                                                                *)
(***************************************************************************)
C20_SeenRowsAreFirstOccurrences ==
  \A s \in Slots : validator[s] # <<>> =>
    LET rs == results[s]
        seenRows == validator[s][1].seenRows
    IN  /\ seenRows = {JSONStringify(rs[k].data) : k \in {j \in 1..Len(rs) : ~rs[j].isDuplicate}}
        /\ Cardinality(seenRows)
             = Len(rs) - Cardinality({k \in 1..Len(rs) : rs[k].isDuplicate})

C20_ValidateRowStep ==
  \A s \in Slots : validator[s] # <<>> /\ validator'[s] # <<>> =>
    LET seenRows == validator[s][1].seenRows
        after    == validator'[s][1].seenRows
    IN  /\ seenRows \subseteq after
        /\ Len(results'[s]) = Len(results[s]) + 1 =>
             LET r      == results'[s][Len(results'[s])]
                 rowKey == JSONStringify(r.data)
             IN  IF rowKey \in seenRows
                   THEN after = seenRows /\ r.isDuplicate
                   ELSE after = seenRows \cup {rowKey} /\ ~r.isDuplicate

C20_SeenRows == [](C20_SeenRowsAreFirstOccurrences) /\ [][C20_ValidateRowStep]_vars

\* three rows returned, one of them a duplicate of an earlier one
C20_Witness ==
  \E s \in Slots :
    /\ validator[s] # <<>>
    /\ Len(results[s]) = 3
    /\ Cardinality(validator[s][1].seenRows) = 2
    /\ results[s][2].isDuplicate

(***************************************************************************)
(* C14  processFiles handles the files of a batch one after another.       *)
(***************************************************************************)
\* the file of slot s is being validated, or being stored
Validating(s) == pc[s] \in {"reading", "rows"}
Storing(s) == stored[s].at = "called"
Busy(s) == Validating(s) \/ Storing(s)

\* the slots that the calls of validateCSV have taken so far
StartedSlots == {s \in Slots : pc[s] # "idle"}

\* at most one file is being validated or stored, it is the file of the running batch,
\* and when it is not the first file of its batch, the file before it (the slot before
\* its slot) has been validated and storeUpload has returned for it
C14_OneFileAtATime ==
  /\ Cardinality({s \in Slots : Busy(s)}) <= 1
  /\ \A s \in Slots : Busy(s) => running.at # "idle" /\ running.slot = s
  /\ running.at # "idle" /\ running.i > 0
       => /\ running.slot - 1 \in Slots
          /\ pc[running.slot - 1] = "resolved"
          /\ stored[running.slot - 1].at = "returned"
  /\ uploading <=> running.at # "idle"

\* a batch starts (the first file of a list is given to validateCSV) only when no batch
\* is running, and a later file starts only in the step in which storeUpload returns
\* for the file before it
C14_StartStep ==
  \A s \in Slots :
    pc[s] = "idle" /\ pc'[s] # "idle"
      => IF running'.i = 0
           THEN running.at = "idle" /\ ~uploading
           ELSE /\ running.at \in {"insertRows", "logRequest"}
                /\ running'.i = running.i + 1
                /\ stored[running.slot].at = "called"
                /\ stored'[running.slot].at = "returned"

\* C14: the files of a batch are handled strictly one after another: the validation of
\* file i+1 starts only after the validation and the store operation of file i have
\* completed, no two files are validated or stored at once, and no second batch starts
\* while one is running
C14_Sequential == [](C14_OneFileAtATime) /\ [][C14_StartStep]_vars

\* the second file of a batch is being validated after the first has been stored
C14_Witness ==
  /\ running.at = "validateCSV"
  /\ running.i = 1
  /\ Len(running.files) = 2
  /\ pc[running.slot] = "rows"
  /\ stored[running.slot - 1].at = "returned"

(***************************************************************************)
(* C15  When the row data of a file is handed to onUploadSuccess.          *)
(***************************************************************************)
\* apiService.storeUpload has returned or thrown for the file of slot s
StoreCompleted(s) == stored[s].at \in {"returned", "thrown"}

\* onUploadSuccess has been called for the file of slot s
HandedOver(s) == handlers[s].at # "none"

\* results[i].data of the file of slot s
CoercedDataOf(s) ==
  [k \in 1..Len(validationOf(s).results) |-> validationOf(s).results[k].data]

\* the rows of csv_data that belong to the upload uploadId
StoredRowsOf(uploadId) == SelectSeq(csv_data, LAMBDA r : r.upload_id = uploadId)

\* C15 as stated: for each processed file the coerced row data (results[i].data) is
\* handed to onUploadSuccess before storeUpload for that file completes, so when
\* storeUpload returns or throws, onUploadSuccess has been called already
C15_HandedOverBeforeStoreCompletes ==
  [][\A s \in Slots : ~StoreCompleted(s) /\ StoreCompleted(s)' => HandedOver(s)]_vars

\* onUploadSuccess has been called for a file only if storeUpload has returned for it,
\* and then the upload and one row per validated row are in the database
C15_HandedOverOnlyStored ==
  \A s \in Slots :
    HandedOver(s)
      => /\ stored[s].at = "returned"
         /\ stored[s].id \in 1..Len(csv_uploads)
         /\ csv_uploads[stored[s].id].id = stored[s].id
         /\ StoredRowsOf(stored[s].id) = rowsToInsert(stored[s].id, validationOf(s).results)

\* onUploadSuccess is called in the step in which storeUpload returns, with results[i].data
C15_HandOverStep ==
  \A s \in Slots :
    /\ ~HandedOver(s) /\ HandedOver(s)'
         => /\ stored[s].at = "called" /\ stored'[s].at = "returned"
            /\ uploadedData' = CoercedDataOf(s)
    /\ stored[s].at = "called" /\ stored'[s].at = "returned" => HandedOver(s)'

\* C15 (amended): for each processed file, the coerced row data (results[i].data) is
\* handed to onUploadSuccess only after storeUpload for that file has returned, in the
\* same continuation of processFiles; when storeUpload throws, the data is not handed over
C15_HandedOverAfterStore == [](C15_HandedOverOnlyStored) /\ [][C15_HandOverStep]_vars

\* a file has been stored and its rows handed over, and storeUpload has thrown for
\* another file, whose rows have not been handed over
C15_Witness ==
  \E s, t \in Slots :
    /\ HandedOver(s) /\ Len(uploadedData) > 0 /\ Len(StoredRowsOf(stored[s].id)) > 0
    /\ stored[t].at = "thrown" /\ ~HandedOver(t)

(***************************************************************************)
(* C16  A file whose validation is rejected.                               *)
(***************************************************************************)
\* validateCSV has rejected for the file of slot s, and processFiles has caught it
ValidationFailed(s) ==
  /\ pc[s] = "rejected"
  /\ ~(running.at = "validateCSV" /\ running.slot = s)

IsUploadFailed(title) == title = "Upload failed"

\* nothing is stored or handed over for a rejected file, and the "Upload failed" notices
\* are one per file that processFiles has failed on
C16_NothingStored ==
  /\ \A s \in Slots :
       pc[s] = "rejected"
         => /\ stored[s] = [at |-> "none", id |-> 0]
            /\ ~HandedOver(s)
  /\ Len(SelectSeq(toasts, IsUploadFailed))
       = Cardinality({s \in Slots : ValidationFailed(s) \/ stored[s].at = "thrown"})

\* the step in which processFiles catches the rejection adds the one notice, ends the
\* batch, and leaves the database and the page as they are
C16_CatchStep ==
  \A s \in Slots :
    ~ValidationFailed(s) /\ ValidationFailed(s)'
      => /\ toasts' = Append(toasts, "Upload failed")
         /\ ~uploading' /\ running'.at = "idle"
         /\ UNCHANGED <<csv_uploads, csv_data, api_logs, stored, handlers, uploadedData,
                        refreshTrigger>>

\* C16: when the validation of a file fails fatally (empty or unreadable file), nothing
\* is stored for the file: storeUpload and onUploadSuccess are not called for it, and the
\* caller gets a single failure, the "Upload failed" notice
C16_FatalValidation == [](C16_NothingStored) /\ [][C16_CatchStep]_vars

\* an unreadable file and an empty file have both failed, each with its notice
C16_Witness ==
  \E s, t \in Slots :
    /\ ValidationFailed(s) /\ ReadFailed(s)
    /\ ValidationFailed(t) /\ ~ReadFailed(t)
    /\ Len(SelectSeq(toasts, IsUploadFailed)) = 2

(***************************************************************************)
(* C17  The pages of getUploadData.                                        *)
(***************************************************************************)
\* the rows of csv_data, by position, that belong to the upload and are not duplicates
NonDuplicatesOf(uploadId) ==
  {j \in 1..Len(csv_data) :
     csv_data[j].upload_id = uploadId /\ ~csv_data[j].is_duplicate}

\* how many non-duplicate rows of the upload come before row j in original row number
BeforeInUpload(uploadId, j) ==
  Cardinality({h \in NonDuplicatesOf(uploadId) :
     csv_data[h].original_row_number < csv_data[j].original_row_number})

PageCount(total, limit) == (total + limit - 1) \div limit

\* result is the page (uploadId, page, limit) of csv_data as C17 describes it
IsPageOf(result, uploadId, page, limit) ==
  /\ result.total = Cardinality(NonDuplicatesOf(uploadId))
  /\ \A k \in 1..Len(result.data) :
       \E j \in NonDuplicatesOf(uploadId) :
         /\ result.data[k] = csv_data[j]
         /\ BeforeInUpload(uploadId, j) = (page - 1) * limit + k - 1
  /\ \A j \in NonDuplicatesOf(uploadId) :
       (page - 1) * limit <= BeforeInUpload(uploadId, j)
         /\ BeforeInUpload(uploadId, j) <= page * limit - 1
         => \E k \in 1..Len(result.data) : result.data[k] = csv_data[j]

\* pages 1..n of the upload, one after another
RECURSIVE PagesUpTo(_, _, _)
PagesUpTo(uploadId, limit, n) ==
  IF n = 0 THEN <<>>
  ELSE PagesUpTo(uploadId, limit, n - 1) \o getUploadData(csv_data, uploadId, n, limit).data

\* every page of every upload of the database is as described, and the pages
\* 1..ceil(total/limit) together hold every non-duplicate row of the upload exactly once
C17_PagesOfDatabase ==
  \A uploadId \in 1..NumSlots : \A limit \in 1..MaxLimit :
    /\ \A page \in 1..(MaxLimit + 1) :
         IsPageOf(getUploadData(csv_data, uploadId, page, limit), uploadId, page, limit)
    /\ LET total == Cardinality(NonDuplicatesOf(uploadId))
           all   == PagesUpTo(uploadId, limit, PageCount(total, limit))
       IN  /\ Len(all) = total
           /\ \A j \in NonDuplicatesOf(uploadId) :
                Cardinality({k \in 1..Len(all) : all[k] = csv_data[j]}) = 1

\* what the API service is about to return once the database has answered
Answered ==
  IF client.at = "logRequest"
    THEN [result |-> client.result, error |-> client.error]
    ELSE [result |-> reply[1].result, error |-> reply[1].error]

\* the step in which the database answers a getUploadData request without an error
C17_AnswerStep ==
  client.at = "database" /\ client.op = "getUploadData" /\ client'.at # "database"
    /\ Answered'.error = <<>>
    => IsPageOf(Answered'.result, client.args[1], client.args[2], client.args[3])

\* C17: getUploadData(uploadId, page, limit) returns only rows of that upload that are
\* not duplicates, in ascending original row number, namely the rows at positions
\* (page-1)*limit .. page*limit-1 of that ordering; total counts all non-duplicate rows
\* of the upload whatever page and limit are, and the pages 1..ceil(total/limit) one
\* after another hold every non-duplicate row exactly once
C17_Pagination == [](C17_PagesOfDatabase) /\ [][C17_AnswerStep]_vars

\* the second page of one row of an upload with a duplicate row has been returned
C17_Witness ==
  /\ reply # <<>>
  /\ reply[1].op = "getUploadData" /\ reply[1].args = <<1, 2, 1>>
  /\ reply[1].error = <<>>
  /\ reply[1].result.total = 2
  /\ Len(reply[1].result.data) = 1
  /\ reply[1].result.data[1].original_row_number = 3
  /\ \E j \in 1..Len(csv_data) : csv_data[j].upload_id = 1 /\ csv_data[j].is_duplicate

(***************************************************************************)
(* C18  Every request through the API service is logged.                   *)
(***************************************************************************)
\* the step adds one entry to api_logs
OneEntryAdded ==
  /\ Len(api_logs') = Len(api_logs) + 1
  /\ SubSeq(api_logs', 1, Len(api_logs)) = api_logs

\* the step in which apiService.storeUpload returns or throws to processFiles
StoreUploadReturns == \E s \in Slots : ~StoreCompleted(s) /\ StoreCompleted(s)'

\* the step in which apiService.getUploads returns or throws to handleUploadSuccess
HandlerGetUploadsReturns ==
  \E s \in Slots : handlers[s].at \in {"getUploads", "logRequest"} /\ handlers'[s].at = "done"

\* the step in which getUploads, getUploadData or searchData returns or throws to the
\* records table
RequestReturns == reply' # <<>> /\ (reply = <<>> \/ asked' # asked)

\* C18: every request made through the API service (getUploads, getUploadData,
\* searchData, storeUpload), whether it succeeds or fails, adds one entry to the API
\* log, at any point of the session, also after the logs have been cleared on start-up
\* or by an earlier upload; the database accepts the inserts into api_logs
C18_EveryRequestLogged ==
  [][StoreUploadReturns \/ HandlerGetUploadsReturns \/ RequestReturns => OneEntryAdded]_vars

(***************************************************************************)
(* C19  The API logs are cleared on start and after every upload.          *)
(***************************************************************************)
\* the step in which a call of deleteAllAPILogs is answered: the call of main.tsx, or a
\* call made by the page
DeleteAnswered == (app = "starting" /\ app' = "mounted") \/ deleting' < deleting

\* the call has succeeded and no entry remains, or it has failed and nothing has changed
ClearedOrRefused ==
  \/ api_logs' = <<>> /\ logAPICall' = "noop"
  \/ UNCHANGED <<api_logs, logAPICall>>

\* the page does nothing before the call of main.tsx is answered; the mount and every
\* storeUpload that returns make the page call deleteAllAPILogs; and the answer of a call
\* either clears api_logs or leaves it as it is
C19_Step ==
  /\ app = "starting" => app' = "mounted" /\ deleting' = deleting + 1
  /\ \A s \in Slots :
       stored[s].at = "called" /\ stored'[s].at = "returned"
         => refreshTrigger' = refreshTrigger + 1 /\ deleting' = deleting + 1
  /\ DeleteAnswered => ClearedOrRefused
  /\ api_logs' # api_logs /\ ~DeleteAnswered
       => Len(api_logs') = Len(api_logs) + 1 /\ SubSeq(api_logs', 1, Len(api_logs)) = api_logs

\* C19: the API logs are cleared on application start and after every successful upload:
\* deleteAllAPILogs is invoked in both cases, and once it succeeds no log entry written
\* before that point remains
C19_LogsCleared == [][C19_Step]_vars

\* the call made after an upload has succeeded and the log is empty: the getUploads of
\* the upload's handler went on to log while logAPICall was still the insert, so the
\* call of main.tsx had failed
C19_Witness ==
  /\ refreshTrigger > 0
  /\ logAPICall = "noop"
  /\ api_logs = <<>>
  /\ \E s \in Slots : stored[s].at = "returned" /\ handlers[s].at = "logRequest"

(***************************************************************************)
(* C21  The validationErrors list of the summary.                          *)
(***************************************************************************)
\* the rows, by position, whose errors list is not empty
RowsWithErrors(rs) == {k \in 1..Len(rs) : rs[k].errors # <<>>}

\* the place of row k among the rows with errors, in row order
PlaceAmongErrors(rs, k) == Cardinality({h \in RowsWithErrors(rs) : h <= k})

\* C21: validationErrors has exactly one entry "Row <n>: <errors>" for each row whose
\* errors list is not empty and none for the other rows, in ascending row order;
\* duplicate rows with cell errors are included, so the entries are as many as the rows
\* with at least one invalid cell, which can be more than errorRows
C21_ValidationErrors ==
  \A s \in Slots : Resolved(s) =>
    LET rs == Outcome(s).results
        ve == Outcome(s).summary.validationErrors
    IN  /\ Len(ve) = Cardinality(RowsWithErrors(rs))
        /\ \A k \in RowsWithErrors(rs) :
             ve[PlaceAmongErrors(rs, k)]
               = <<"Row ", ToString(rs[k].rowNumber), ": ">> \o join(rs[k].errors, <<", ">>)
        /\ \A k \in RowsWithErrors(rs) : \A h \in RowsWithErrors(rs) :
             h < k => rs[h].rowNumber < rs[k].rowNumber
        /\ Len(ve) >= Outcome(s).summary.errorRows

\* a summary with more entries than error rows: a duplicate row has cell errors
C21_Witness ==
  \E s \in Slots :
    /\ Resolved(s)
    /\ Len(Outcome(s).summary.validationErrors) > Outcome(s).summary.errorRows
    /\ Len(Outcome(s).summary.validationErrors) >= 2
    /\ \E k \in 1..Len(Outcome(s).results) : Outcome(s).results[k].errors = <<>>

(***************************************************************************)
(* C22  How the fields of a line are obtained.                             *)
(***************************************************************************)
\* a field without the double quotes that surround it
SurroundingStripped(field) ==
  IF Len(field) >= 2 /\ field[1] = "\"" /\ field[Len(field)] = "\""
    THEN SubSeq(field, 2, Len(field) - 1)
    ELSE field

\* the fields of a line as C22 describes them
FieldsAsStated(line) ==
  [k \in 1..Len(split(line, ",")) |-> SurroundingStripped(trim(split(line, ",")[k]))]

\* the header name of column c is the name of no other column
NameOccursOnce(s, c) == \A d \in 1..Len(headers[s]) : headers[s][d] = headers[s][c] => d = c

\* C22: header and data fields are obtained by splitting the line on commas, trimming
\* each field and stripping only the double quotes that surround the field; double
\* quotes inside a field's content are preserved in the parsed value
C22_FieldsKeepInnerQuotes ==
  \A s \in Slots : Resolved(s) =>
    /\ headers[s] = FieldsAsStated(NonBlankLines(file[s])[1])
    /\ \A k \in 1..Len(Outcome(s).results) : \A c \in 1..Len(headers[s]) :
         LET fields == FieldsAsStated(DataLine(s, k))
         IN  c <= Len(fields) /\ trim(fields[c]) # <<>> /\ NameOccursOnce(s, c)
             /\ ColumnType(s, c) = "string"
               => GetProp(Outcome(s).results[k].data, headers[s][c])
                    = StringValue(trim(fields[c]))

(***************************************************************************)
(* C23  validateValue is pure; the column types are fixed.                 *)
(***************************************************************************)
\* the raw value of column c in row k, and what row k's result holds for the column
RawCell(s, k, c) == GetProp(RowDataOf(s, k), headers[s][c])
CoercedCell(s, k, c) == GetProp(results[s][k].data, headers[s][c])

IsPrefix(p, e) == Len(p) <= Len(e) /\ SubSeq(e, 1, Len(p)) = p

\* the messages that row k's errors list holds for column c
CellErrors(s, k, c) ==
  {SubSeq(e, Len(headers[s][c]) + 2, Len(e)) :
     e \in {results[s][k].errors[n] : n \in 1..Len(results[s][k].errors)}
           \cap {e \in {results[s][k].errors[n] : n \in 1..Len(results[s][k].errors)} :
                   IsPrefix(headers[s][c] \o <<": ">>, e)}}

\* the cells of the rows validated so far, in columns whose name occurs once
Cells ==
  {<<s, k, c>> \in Slots \X (1..MaxLines + 1) \X (1..3) :
     /\ validator[s] # <<>>
     /\ k <= Len(results[s])
     /\ c <= Len(headers[s])
     /\ NameOccursOnce(s, c)}

\* two cells with the same raw value and the same expected type have the same coerced
\* value and the same messages, whatever rows were seen before them
C23_SameInputsSameResults ==
  \A x \in Cells : \A y \in Cells :
    /\ RawCell(x[1], x[2], x[3]) = RawCell(y[1], y[2], y[3])
    /\ ColumnType(x[1], x[3]) = ColumnType(y[1], y[3])
    => /\ CoercedCell(x[1], x[2], x[3]) = CoercedCell(y[1], y[2], y[3])
       /\ CellErrors(x[1], x[2], x[3]) = CellErrors(y[1], y[2], y[3])

\* the column types are set when the validator is constructed and stay as they are;
\* the step of getValidationSummary and resolve leaves the validator as it is
C23_FrameStep ==
  \A s \in Slots :
    /\ validator[s] = <<>> /\ validator'[s] # <<>>
         => validator'[s][1].columnTypes = detectColumnTypes(headers'[s])
    /\ validator[s] # <<>>
         => /\ validator'[s] # <<>>
            /\ validator'[s][1].columnTypes = validator[s][1].columnTypes
            /\ validator'[s][1].columns = validator[s][1].columns
    /\ pc[s] = "rows" /\ pc'[s] = "resolved"
         => /\ validator'[s] = validator[s]
            /\ Outcome(s)'.summary.columnTypes = validator[s][1].columnTypes

\* C23: validateValue is a pure function of (raw value, expected type): it neither reads
\* nor changes the seen-row set or the column types, and equal inputs give equal
\* results; the column types are fixed when the validator is constructed and left
\* unchanged by validateValue, validateRow and getValidationSummary, which also leaves
\* the seen-row set unchanged
C23_PureAndFixed == [](C23_SameInputsSameResults) /\ [][C23_FrameStep]_vars

\* a resolved file in which a row repeats an earlier row, cell for cell, after the
\* seen-row set has grown
C23_Witness ==
  \E s \in Slots :
    /\ Resolved(s)
    /\ Len(results[s]) >= 2
    /\ results[s][2].isDuplicate
    /\ Cardinality(validator[s][1].seenRows) >= 1
    /\ <<s, 2, 1>> \in Cells
    /\ CoercedCell(s, 1, 1) = CoercedCell(s, 2, 1)

(***************************************************************************)
(* C24  Request logging does not change the outcome of an operation.       *)
(***************************************************************************)
\* what apiService.storeUpload has handed to processFiles is what the database did:
\* it has returned the identifier of an upload whose rows are all stored, or it has
\* thrown and no row of the upload is stored
C24_OutcomeIsDatabaseOutcome ==
  \A s \in Slots :
    /\ stored[s].at = "returned"
         => /\ stored[s].id \in 1..Len(csv_uploads)
            /\ Len(StoredRowsOf(stored[s].id)) = Len(validationOf(s).results)
    /\ stored[s].at = "thrown" => StoredRowsOf(stored[s].id) = <<>>

\* the step in which the insert of a log entry is answered, with the entry stored or
\* not, hands the caller what the database operation gave: the identifier or the error
\* of storeUpload, the upload list or the error of getUploads
C24_LogStep ==
  /\ running.at = "logRequest" /\ running' # running
       => stored'[running.slot] =
            [at |-> IF running.error = <<>> THEN "returned" ELSE "thrown",
             id |-> running.uploadId]
  /\ \A s \in Slots :
       handlers[s].at = "logRequest" /\ handlers'[s].at = "done"
         => IF handlers[s].error = <<>> /\ Len(handlers[s].uploads) > 0
              THEN latestUploadId' = <<handlers[s].uploads[1].id>>
              ELSE latestUploadId' = latestUploadId

\* C24: request logging never changes the outcome of an API service operation: when the
\* database operation succeeds the caller receives its result, and when it fails the
\* caller receives that same error, whether writing the log entry succeeds or fails
C24_LoggingKeepsOutcome == [](C24_OutcomeIsDatabaseOutcome) /\ [][C24_LogStep]_vars

\* storeUpload has returned the identifier of a stored upload although the insert of
\* its log entry was refused: logging is on and no entry of the call is in api_logs
C24_Witness ==
  \E s \in Slots :
    /\ stored[s].at = "returned"
    /\ Len(StoredRowsOf(stored[s].id)) > 0
    /\ logAPICall = "insert"
    /\ \A n \in 1..Len(api_logs) : api_logs[n].method # "POST"

(***************************************************************************)
(* C25  The column names stored with an upload.                            *)
(***************************************************************************)
\* the record of csv_uploads that storeUpload has returned for the file of slot s
UploadOf(s) == csv_uploads[stored[s].id]

\* C25 as stated: the column_names stored with an upload is the original header column
\* list, the same names in the same order, for every header, headers with repeated
\* names included
C25_ColumnNamesAreHeader ==
  \A s \in Slots :
    stored[s].at = "returned" => UploadOf(s).column_names = headers[s]

\* the names are stored as the header has them when no name is repeated and none is
\* the decimal text of an array index
C25_DistinctNamesStored ==
  \A s \in Slots :
    /\ stored[s].at = "returned"
    /\ \A c \in 1..Len(headers[s]) : NameOccursOnce(s, c) /\ ~IsArrayIndex(headers[s][c])
    => UploadOf(s).column_names = headers[s]

(***************************************************************************)
(* C26  After deleteAllAPILogs has succeeded, logAPICall is a no-op.       *)
(***************************************************************************)
\* a call of the API service goes on to the insert of its log entry
LogInsertIssued ==
  \/ running.at # "logRequest" /\ running'.at = "logRequest"
  \/ \E s \in Slots : handlers[s].at # "logRequest" /\ handlers'[s].at = "logRequest"
  \/ client.at # "logRequest" /\ client'.at = "logRequest"

\* an insert of a log entry that was issued earlier is answered
LogInsertAnswered ==
  \/ running.at = "logRequest" /\ running' # running
  \/ \E s \in Slots : handlers[s].at = "logRequest" /\ handlers'[s].at = "done"
  \/ client.at = "logRequest" /\ client'.at = "idle"

\* a call of deleteAllAPILogs that is answered without error leaves logAPICall the
\* no-op; the no-op stays; and while it is the no-op no call of the API service issues
\* an insert into api_logs, so that the table changes only by the answer to a delete or
\* to an insert issued before the delete succeeded
C26_Step ==
  /\ DeleteAnswered => logAPICall' = "noop" \/ UNCHANGED <<api_logs, logAPICall>>
  /\ logAPICall = "noop"
       => /\ logAPICall' = "noop"
          /\ ~LogInsertIssued
          /\ api_logs' # api_logs => DeleteAnswered \/ LogInsertAnswered

\* a call of the API service that begins while logAPICall is the no-op ends with api_logs
\* as it was: storeUpload from its call to its return, and a request of the records table
C26_CallStep ==
  logAPICall = "noop"
    => /\ running.at \in {"insertUpload", "insertRows"} /\ running'.at # running.at
            => api_logs' = api_logs
       /\ \A s \in Slots : handlers[s].at = "getUploads" /\ handlers'[s].at # "getUploads"
            => api_logs' = api_logs /\ handlers'[s].at = "done"
       /\ client.at = "database" /\ client'.at # "database"
            => api_logs' = api_logs /\ reply' # <<>>

StoreUploadThrows ==
  \/ stored'[running.slot].at = "thrown"
  \/ running'.at = "logRequest" /\ running'.error # <<>>

\* the answer to the insert of the metadata record: the record is added with the status
\* 'completed' and the rows are inserted next, or nothing is added and storeUpload throws
\* without inserting a row
C27_UploadStep ==
  running.at = "insertUpload" /\ running' # running
    => /\ csv_data' = csv_data
       /\ \/ /\ Len(csv_uploads') = Len(csv_uploads) + 1
             /\ SubSeq(csv_uploads', 1, Len(csv_uploads)) = csv_uploads
             /\ csv_uploads'[Len(csv_uploads')].upload_status = "completed"
             /\ running'.at = "insertRows"
             /\ running'.uploadId = csv_uploads'[Len(csv_uploads')].id
          \/ /\ csv_uploads' = csv_uploads
             /\ StoreUploadThrows
             /\ running'.at # "insertRows"

\* the answer to the insert of the rows: the rows are added, or none is added and
\* storeUpload throws, leaving the metadata record as it was inserted
C27_RowsStep ==
  running.at = "insertRows" /\ running' # running
    => /\ csv_uploads' = csv_uploads
       /\ \/ /\ Len(csv_data') = Len(csv_data) + Len(validationOf(running.slot).results)
             /\ ~StoreUploadThrows
          \/ /\ csv_data' = csv_data
             /\ StoreUploadThrows

\* an upload for which storeUpload has thrown after the metadata record was inserted
\* has the record, with the status 'completed', and no row
C27_RecordWithoutRows ==
  \A s \in Slots :
    stored[s].at = "thrown" /\ stored[s].id > 0
      => /\ stored[s].id \in 1..Len(csv_uploads)
         /\ csv_uploads[stored[s].id].upload_status = "completed"
         /\ StoredRowsOf(stored[s].id) = <<>>

\* C27: storeUpload is not atomic: the metadata record, with the status 'completed', is
\* inserted first and the rows second; when the insert of the rows fails storeUpload
\* throws and returns no identifier, and the metadata record is left with no rows; when
\* the insert of the metadata record fails no row is inserted
C27_NotAtomic == [](C27_RecordWithoutRows) /\ [][C27_UploadStep /\ C27_RowsStep]_vars

\* storeUpload has thrown for a file whose metadata record is stored without rows
C27_Witness ==
  \E s \in Slots :
    /\ stored[s].at = "thrown"
    /\ stored[s].id \in 1..Len(csv_uploads)
    /\ csv_uploads[stored[s].id].upload_status = "completed"
    /\ csv_uploads[stored[s].id].total_rows > 0
    /\ StoredRowsOf(stored[s].id) = <<>>

(***************************************************************************)
(* C28  A file that fails ends its batch.                                  *)
(***************************************************************************)
\* the step in which the validation or the storage of the file of slot s fails
FileFails(s) ==
  \/ ~ValidationFailed(s) /\ ValidationFailed(s)'
  \/ stored[s].at # "thrown" /\ stored'[s].at = "thrown"

\* a file that has failed has not been handed to onUploadSuccess
C28_FailedNotHandedOver ==
  \A s \in Slots : ValidationFailed(s) \/ stored[s].at = "thrown" => ~HandedOver(s)

\* the step in which file i fails ends the batch with uploading false and starts no
\* validation; the files before it in the batch (the slots before its slot) are stored
\* and handed over, and stay so; and a later file of a batch starts only in the step in
\* which storeUpload returns for the file before it
C28_FailStep ==
  /\ \A s \in Slots :
       FileFails(s)
         => /\ running.at # "idle" /\ running.slot = s
            /\ running' = NoRun
            /\ ~uploading'
            /\ StartedSlots' = StartedSlots
            /\ ~HandedOver(s)'
            /\ UNCHANGED <<csv_uploads, csv_data, uploadedData, refreshTrigger>>
            /\ \A j \in 1..running.i :
                 /\ stored'[s - j].at = "returned"
                 /\ HandedOver(s - j)'
                 /\ stored'[s - j].id \in 1..Len(csv_uploads')
  /\ \A s \in Slots :
       pc[s] = "idle" /\ pc'[s] # "idle" /\ running'.i > 0
         => /\ stored'[running.slot].at = "returned"
            /\ ~FileFails(running.slot)

\* C28: when the validation or the storage of file i of a batch fails, no later file of
\* the batch is validated or stored, the files before i remain stored and notified,
\* onUploadSuccess is not called for file i, and in every case the uploading flag
\* returns to false in the end
C28_FailureEndsBatch ==
  /\ [](C28_FailedNotHandedOver)
  /\ [][C28_FailStep]_vars
  /\ (uploading ~> ~uploading)

\* the first of two files has failed in storage: the second was never given to
\* validateCSV, and the uploading flag is false again
C28_Witness ==
  /\ Len(files) = 2
  /\ stored[1].at = "thrown"
  /\ ~HandedOver(1)
  /\ pc[2] = "idle"
  /\ ~uploading
  /\ running.at = "idle"

\* the second of two files has failed after the first was stored and handed over
C28_SecondFails ==
  /\ Len(files) = 2
  /\ stored[1].at = "returned" /\ HandedOver(1)
  /\ ValidationFailed(2) \/ stored[2].at = "thrown"
  /\ ~uploading

(***************************************************************************)
(* C29  latestUploadId after a batch.                                      *)
(***************************************************************************)
\* a batch has been stored, file by file, and no call of handleUploadSuccess is left
\* waiting for its fetch of the upload list
BatchStoredAndFetched ==
  /\ running.at = "idle"
  /\ StartedSlots # {}
  /\ \A s \in StartedSlots : stored[s].at = "returned"
  /\ \A s \in Slots : handlers[s].at \in {"none", "done"}

\* the upload stored last: the first of the list in descending order of created_at
MostRecentUpload == getUploads(csv_uploads)[1].id

\* C29 as stated: after a batch of files has been stored and every fetch of the upload
\* list started by handleUploadSuccess has completed, in any order of completion,
\* latestUploadId identifies the most recently stored upload
C29_LatestIsMostRecent ==
  BatchStoredAndFetched => latestUploadId = <<MostRecentUpload>>

\* latestUploadId is the identifier of a record of csv_uploads, or is not set
C29_LatestIsAnUpload ==
  latestUploadId # <<>> => latestUploadId[1] \in 1..Len(csv_uploads)

(***************************************************************************)
(* C30  Invalid cells keep their text, and invalid rows are seen rows.     *)
(***************************************************************************)
\* a cell that is not empty and has a message in the errors of its row holds its
\* trimmed text as a string, and a cell holds null exactly when it is missing
C30_InvalidCellKeepsText ==
  \A x \in Cells :
    /\ CellText(x[1], x[2], x[3]) # <<>> /\ CellErrors(x[1], x[2], x[3]) # {}
         => /\ CoercedCell(x[1], x[2], x[3]).t = "string"
            /\ CoercedCell(x[1], x[2], x[3]).v = CellText(x[1], x[2], x[3])
    /\ CoercedCell(x[1], x[2], x[3]).t = "null" <=> CellText(x[1], x[2], x[3]) = <<>>

\* every validated row, valid or not, is in the seen-row set, so a later row with the
\* same content is a duplicate; the summary counts it in duplicateRows; and the
\* keys of every row's data are the column names of the header
C30_InvalidRowsAreSeen ==
  \A s \in Slots : validator[s] # <<>> =>
    /\ \A k \in 1..Len(results[s]) :
         /\ JSONStringify(results[s][k].data) \in validator[s][1].seenRows
         /\ \A j \in 1..(k - 1) :
              (\A c \in 1..Len(headers[s]) : CellText(s, j, c) = CellText(s, k, c))
                => results[s][k].isDuplicate
         /\ {results[s][k].data[p].key : p \in 1..Len(results[s][k].data)}
              = {headers[s][c] : c \in 1..Len(headers[s])}
    /\ Resolved(s)
         => Outcome(s).summary.duplicateRows
              = Cardinality({k \in 1..Len(results[s]) : results[s][k].isDuplicate})

\* C30: a cell that is non-empty but fails its type check keeps its trimmed raw string as
\* coerced value (only a missing value is coerced to null), and rows with invalid cells
\* enter the seen-row set like valid ones: a second row with the same invalid content is
\* reported as a duplicate and counted in duplicateRows, and every row's data has
\* exactly the header's column names as keys
C30_InvalidContent == C30_InvalidCellKeepsText /\ C30_InvalidRowsAreSeen

\* a resolved file whose second row repeats the invalid content of its first row: both
\* rows carry the cell's message, the second is a duplicate and is counted as one
C30_Witness ==
  \E s \in Slots : \E c \in 1..3 :
    /\ Resolved(s)
    /\ Len(results[s]) >= 2
    /\ <<s, 1, c>> \in Cells
    /\ CellText(s, 1, c) # <<>>
    /\ CellErrors(s, 1, c) # {}
    /\ CellErrors(s, 2, c) # {}
    /\ CoercedCell(s, 2, c).t = "string"
    /\ CoercedCell(s, 2, c).v = CellText(s, 2, c)
    /\ ~results[s][1].isDuplicate
    /\ results[s][2].isDuplicate
    /\ Outcome(s).summary.duplicateRows >= 1

====
